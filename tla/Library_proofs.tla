------------------------- MODULE Library_proofs ---------------------------
(***************************************************************************)
(* What the example programs may rely on, for any number of producers over *)
(* one store, of records, batches, rounds, readers and failures; what the  *)
(* schema compiler makes of any document; and what collections say.        *)
(***************************************************************************)
EXTENDS ProducerPool, PollingReaders, SchemaCompiler, Collections, WellFoundedInduction,
        FiniteSetTheorems, TLAPS

(* Induction over numbers is the search for an extreme counterexample. *)
LEMMA LastExists ==
  ASSUME NEW N \in Nat, NEW T, T \subseteq 0..N, T # {}
  PROVE  \E x \in T : \A y \in T : y <= x
<1> DEFINE R == OpToRel(<, Nat)
           below == {N - y : y \in T}
<1>1. IsWellFoundedOn(R, Nat)
  BY NatLessThanWellFounded
<1>2. \A x, y \in Nat : y < x => <<y, x>> \in R
  BY DEF OpToRel
<1>3. \A y \in T : y \in Nat /\ N - y \in Nat
  OBVIOUS
<1>4. below \subseteq Nat /\ below # {}
  BY <1>3
<1> HIDE DEF R
<1>5. PICK z \in below : \A y \in below : <<y, z>> \notin R
  <2> HIDE DEF below
  <2> QED BY <1>1, <1>4, WFMin
<1>6. PICK x \in T : z = N - x
  OBVIOUS
<1>7. ASSUME NEW y \in T PROVE y <= x
  <2>1. N - y \in below /\ N - y \in Nat /\ N - x \in Nat
    BY <1>3
  <2>2. ~(N - y < N - x)
    BY <1>2, <1>5, <1>6, <2>1
  <2> QED BY <1>3, <2>2
<1> QED BY <1>7

(***************************************************************************)
(* The store                                                               *)
(***************************************************************************)
Stored(v) == snapshots[v] # NoWriter \/ deltas[v - 1] # NoWriter

IsProducer(p) ==
  p \in [version : 0..MaxVersion, lastSnapshot : Nat, frequency : Nat, stored : BOOLEAN]

(* All versions that a producer has gone through, or that are announced,   *)
(* are stored, by whomever.                                                *)
SharedInv ==
  /\ producer = [w \in Writers |-> producer[w]]
  /\ \A w \in Writers : IsProducer(producer[w])
  /\ snapshots = [v \in 1..MaxVersion |-> snapshots[v]]
  /\ deltas = [v \in 0..(MaxVersion - 1) |-> deltas[v]]
  /\ latest \in 0..MaxVersion
  /\ \A w \in Writers : \A v \in 1..producer[w].version : Stored(v)
  /\ \A v \in 1..latest : Stored(v)

LEMMA SharedInvInit ==
  ASSUME NEW frequency \in Nat, StoreInit(frequency) PROVE SharedInv
<1>1. MaxVersion \in Nat
  BY SharedStoreAssumption
<1>2. \A w \in Writers : IsProducer(producer[w]) /\ producer[w].version = 0
  BY <1>1 DEF StoreInit, IsProducer
<1>3. producer = [w \in Writers |-> producer[w]]
  BY DEF StoreInit
<1>4. /\ snapshots = [v \in 1..MaxVersion |-> snapshots[v]]
      /\ deltas = [v \in 0..(MaxVersion - 1) |-> deltas[v]]
      /\ latest = 0
  BY DEF StoreInit
<1> QED BY <1>1, <1>2, <1>3, <1>4 DEF SharedInv

(* What a step does to the store, for those who share it. *)
StoreStep ==
  \/ \E w \in Writers : StoreBlob(w) \/ StoreFails(w) \/ Announce(w)
  \/ UNCHANGED storeVars

LEMMA NotedKeeps ==
  ASSUME NEW p, IsProducer(p)
  PROVE  IsProducer(Noted(p)) /\ Noted(p).version = p.version
BY SharedStoreAssumption DEF Noted, IsProducer

LEMMA SharedInvStep ==
  ASSUME SharedInv, StoreStep
  PROVE  SharedInv' /\ latest <= latest'
<1>1. MaxVersion \in Nat /\ \A w \in Writers : w # NoWriter
  BY SharedStoreAssumption
<1>2. CASE UNCHANGED storeVars
  <2>1. latest \in Nat /\ UNCHANGED <<producer, snapshots, deltas, latest>>
    BY <1>2 DEF SharedInv, storeVars
  <2>2. SharedInv'
    BY <2>1, Zenon DEF SharedInv, Stored
  <2> QED BY <2>1, <2>2
<1>3. ASSUME NEW w \in Writers, StoreBlob(w) PROVE SharedInv' /\ latest <= latest'
  <2>1. PICK p : p = producer[w]
    OBVIOUS
  <2>2. PICK q : q = Noted(p)
    OBVIOUS
  <2>3. IsProducer(q) /\ q.version = p.version /\ p.version \in 0..MaxVersion
    BY <2>1, <2>2, NotedKeeps DEF SharedInv, IsProducer
  <2>4. p.version < MaxVersion
    BY <1>3, <2>1 DEF StoreBlob, MayRunCycle
  <2>5. producer' = [producer EXCEPT ![w] = [q EXCEPT !.version = @ + 1, !.stored = TRUE]]
    BY <1>3, <2>1, <2>2 DEF StoreBlob
  <2>6. PICK r : r = [q EXCEPT !.version = @ + 1, !.stored = TRUE]
    OBVIOUS
  <2>7. IsProducer(r) /\ r.version = p.version + 1
    <3>1. q \in [version : 0..MaxVersion, lastSnapshot : Nat, frequency : Nat, stored : BOOLEAN]
      BY <2>3 DEF IsProducer
    <3>2. p.version + 1 \in 0..MaxVersion
      BY <1>1, <2>3, <2>4
    <3> QED BY <2>3, <2>6, <3>1, <3>2 DEF IsProducer
  <2>8. /\ producer' = [u \in Writers |-> IF u = w THEN r ELSE producer[u]]
        /\ UNCHANGED latest
    BY <1>3, <2>5, <2>6 DEF SharedInv, StoreBlob
  <2>9. \/ snapshots' = [snapshots EXCEPT ![p.version + 1] = w] /\ UNCHANGED deltas
        \/ deltas' = [deltas EXCEPT ![p.version] = w] /\ UNCHANGED snapshots
    BY <1>3, <2>1 DEF StoreBlob
  <2>10. p.version + 1 \in 1..MaxVersion /\ p.version \in 0..(MaxVersion - 1)
         /\ (p.version + 1) - 1 = p.version
    BY <1>1, <2>3, <2>4
  <2>11. /\ snapshots' = [v \in 1..MaxVersion |-> snapshots'[v]]
         /\ deltas' = [v \in 0..(MaxVersion - 1) |-> deltas'[v]]
    BY <2>9 DEF SharedInv
  <2>12. Stored(p.version + 1)'
    BY <1>1, <2>9, <2>10 DEF SharedInv, Stored
  <2>13. ASSUME NEW v \in 1..MaxVersion, Stored(v) PROVE Stored(v)'
    <3>1. v - 1 \in 0..(MaxVersion - 1)
      BY <1>1
    <3> QED BY <1>1, <2>9, <2>10, <2>13, <3>1 DEF SharedInv, Stored
  <2>14. ASSUME NEW u \in Writers, NEW v \in 1..producer'[u].version PROVE Stored(v)'
    <3>1. CASE u = w
      <4>1. v \in 1..(p.version + 1)
        BY <2>7, <2>8, <3>1
      <4>2. CASE v = p.version + 1
        BY <2>12, <4>2
      <4>3. CASE v # p.version + 1
        BY <1>1, <2>1, <2>3, <2>13, <4>1, <4>3 DEF SharedInv
      <4> QED BY <4>2, <4>3
    <3>2. CASE u # w
      <4>1. v \in 1..producer[u].version /\ producer[u].version \in 0..MaxVersion
        BY <2>8, <3>2 DEF SharedInv, IsProducer
      <4> QED BY <1>1, <2>13, <4>1 DEF SharedInv
    <3> QED BY <3>1, <3>2
  <2>15. \A v \in 1..latest' : Stored(v)'
    BY <1>1, <2>8, <2>13 DEF SharedInv
  <2>16. \A u \in Writers : IsProducer(producer'[u])
    BY <2>7, <2>8 DEF SharedInv
  <2>17. producer' = [u \in Writers |-> producer'[u]]
    BY <2>8
  <2> QED BY <2>8, <2>11, <2>14, <2>15, <2>16, <2>17 DEF SharedInv, IsProducer
<1>4. ASSUME NEW w \in Writers, NEW p, producer' = [producer EXCEPT ![w] = p],
             IsProducer(p), p.version = producer[w].version,
             UNCHANGED <<snapshots, deltas>>, latest' \in {latest, p.version}, latest <= latest'
      PROVE  SharedInv' /\ latest <= latest'
  <2>1. producer' = [u \in Writers |-> IF u = w THEN p ELSE producer[u]]
    BY <1>4 DEF SharedInv
  <2>2. \A u \in Writers : IsProducer(producer'[u]) /\ producer'[u].version = producer[u].version
    BY <1>4, <2>1 DEF SharedInv
  <2>3. producer' = [u \in Writers |-> producer'[u]]
    BY <2>1
  <2>4. \A u \in Writers : \A v \in 1..producer'[u].version : Stored(v)'
    BY <1>4, <2>2 DEF SharedInv, Stored
  <2>5. \A v \in 1..latest' : Stored(v)'
    BY <1>4 DEF SharedInv, Stored
  <2>6. latest' \in 0..MaxVersion
    BY <1>4 DEF SharedInv, IsProducer
  <2> QED BY <1>4, <2>2, <2>3, <2>4, <2>5, <2>6 DEF SharedInv
<1>5. ASSUME NEW w \in Writers, StoreFails(w) PROVE SharedInv' /\ latest <= latest'
  <2> DEFINE p == Noted(producer[w])
  <2>1. producer' = [producer EXCEPT ![w] = p]
    BY <1>5 DEF StoreFails
  <2>2. IsProducer(producer[w]) /\ latest \in Nat
    BY DEF SharedInv
  <2>3. IsProducer(p) /\ p.version = producer[w].version
    BY <2>2, NotedKeeps
  <2>4. UNCHANGED <<snapshots, deltas, latest>>
    BY <1>5 DEF StoreFails
  <2>5. latest' \in {latest, p.version} /\ latest <= latest'
    BY <2>2, <2>4
  <2> HIDE DEF p
  <2> QED BY <1>4, <2>1, <2>3, <2>4, <2>5
<1>6. ASSUME NEW w \in Writers, Announce(w) PROVE SharedInv' /\ latest <= latest'
  <2>1. PICK q, p : q = producer[w] /\ p = [q EXCEPT !.stored = FALSE]
    OBVIOUS
  <2>2. IsProducer(producer[w]) /\ latest \in Nat
    BY DEF SharedInv
  <2>3. IsProducer(p) /\ p.version = producer[w].version /\ p.version \in Nat
    <3>1. q \in [version : 0..MaxVersion, lastSnapshot : Nat, frequency : Nat, stored : BOOLEAN]
      BY <2>1, <2>2 DEF IsProducer
    <3>2. IsProducer(p) /\ p.version = q.version /\ p.version \in 0..MaxVersion
      BY <2>1, <3>1 DEF IsProducer
    <3> QED BY <1>1, <2>1, <3>2
  <2>4. producer' = [producer EXCEPT ![w] = p]
    BY <1>6, <2>1 DEF Announce
  <2>5. latest' \in {latest, p.version} /\ latest <= latest'
    BY <1>6, <2>2, <2>3 DEF Announce
  <2> QED BY <1>4, <1>6, <2>3, <2>4, <2>5 DEF Announce
<1> QED BY <1>2, <1>3, <1>5, <1>6 DEF StoreStep

(* The walk back ends at the newest snapshot on the way, or where it was   *)
(* to start.                                                               *)
LEMMA AnnouncedIsReached ==
  ASSUME SharedInv, NEW from \in 0..latest, NEW to \in 0..latest
  PROVE  Reaches(from, to)
<1>1. /\ from \in Nat /\ to \in Nat /\ latest \in Nat /\ MaxVersion \in Nat
      /\ latest <= MaxVersion /\ to <= latest
  BY SharedStoreAssumption DEF SharedInv
<1> SUFFICES ASSUME from < to PROVE Anchors(from, to) # {}
  BY <1>1 DEF Reaches
<1> DEFINE ends == {u \in from..to : u = from \/ snapshots[u] # NoWriter}
<1>2. ends \subseteq 0..to /\ from \in ends
  BY <1>1
<1>3. PICK u \in ends : \A v \in ends : v <= u
  <2> HIDE DEF ends
  <2> QED BY <1>1, <1>2, LastExists
<1>4. ASSUME NEW v \in (u + 1)..to
      PROVE  snapshots[v] = NoWriter /\ deltas[v - 1] # NoWriter
  <2>1. u \in Nat /\ v \in Nat /\ v \in from..to /\ v > u /\ v \in 1..latest
    BY <1>1
  <2>2. snapshots[v] = NoWriter
    BY <1>3, <2>1
  <2>3. Stored(v)
    BY <2>1 DEF SharedInv
  <2> QED BY <2>2, <2>3 DEF Stored
<1>5. u \in Anchors(from, to)
  BY <1>4 DEF Anchors
<1> QED BY <1>5

(***************************************************************************)
(* The readers                                                             *)
(***************************************************************************)
IsPoller(x) ==
  x \in [target : Nat, last : Nat, zeroCopyReads : Nat, fallbackReads : Nat,
         errors : Nat, backoff : Nat, authors : {x.authors}]

(* A reader on its way to a version has not seen it yet, and was told of   *)
(* it: with another announcer none is, and nothing resets its backoff.     *)
ServedInv(r, x) ==
  /\ IsPoller(x)
  /\ x.last <= latest /\ x.target <= latest
  /\ x.target > 0 => SeesLatest /\ x.target > x.last
  /\ x.zeroCopyReads + x.fallbackReads <= x.last
  /\ SeesLatest => x.errors = 0 /\ x.backoff = InitialBackoff
  /\ setting.strategies[r] # "fallback" => x.fallbackReads = 0
  /\ x.backoff \in InitialBackoff..MaxBackoff
  /\ x.errors > 0 => x.backoff \in (InitialBackoff + 1)..MaxBackoff

ReadersInv ==
  /\ SharedInv
  /\ setting \in Settings
  /\ poller = [r \in Readers |-> poller[r]]
  /\ \A r \in Readers : ServedInv(r, poller[r])

LEMMA ReadersInvInit == ReadersInit => ReadersInv
<1> SUFFICES ASSUME ReadersInit PROVE ReadersInv
  OBVIOUS
<1>1. setting \in Settings /\ StoreInit(setting.frequency) /\ setting.frequency \in Nat
  BY ReadersAssumption DEF ReadersInit
<1>2. SharedInv /\ latest = 0
  BY <1>1, SharedInvInit DEF StoreInit
<1>3. poller = [r \in Readers |-> NewPoller]
  BY DEF ReadersInit
<1>4. /\ IsPoller(NewPoller)
      /\ NewPoller.last = 0 /\ NewPoller.target = 0 /\ NewPoller.zeroCopyReads = 0
      /\ NewPoller.fallbackReads = 0 /\ NewPoller.errors = 0
      /\ NewPoller.backoff = InitialBackoff
  BY ReadersAssumption DEF NewPoller, IsPoller
<1>5. \A r \in Readers : ServedInv(r, NewPoller)
  BY <1>2, <1>4, ReadersAssumption DEF ServedInv
<1> QED BY <1>1, <1>2, <1>3, <1>5 DEF ReadersInv

(* What the first attempt of a reader is. *)
LEMMA FirstAttempt ==
  ASSUME setting \in Settings, NEW r \in Readers
  PROVE  /\ 1 \in DOMAIN AttemptsOf(r) /\ DOMAIN AttemptsOf(r) \subseteq Nat \ {0}
         /\ AttemptsOf(r)[1] \in {"zeroCopy", "regular"}
         /\ setting.strategies[r] # "fallback" => AttemptsOf(r)[1] # "regular"
<1>1. setting.strategies[r] \in {"demo", "production", "zeroCopy", "fallback", "adaptive"}
  BY ReadersAssumption DEF Readers, Attempts
<1> QED BY <1>1 DEF AttemptsOf, Attempts, RunConsumer, ProcessNewData, RunZeroCopyConsumer,
                    RunFallbackConsumer, RunAdaptiveConsumer

LEMMA BackoffGrows ==
  ASSUME NEW d \in InitialBackoff..MaxBackoff
  PROVE  IncreaseBackoff(d) \in (InitialBackoff + 1)..MaxBackoff
<1>1. /\ d \in Nat /\ d >= 2 /\ InitialBackoff \in Nat /\ MaxBackoff \in Nat
      /\ InitialBackoff < MaxBackoff
  BY ReadersAssumption
<1>2. (d * 3) \div 2 \in Nat /\ (d * 3) \div 2 > d
  BY <1>1
<1> QED BY <1>1, <1>2 DEF IncreaseBackoff

(* Steps that leave the readers alone. *)
LEMMA ReadersWait ==
  ASSUME ReadersInv, StoreStep, UNCHANGED <<setting, poller>>
  PROVE  ReadersInv'
<1>1. SharedInv' /\ latest <= latest' /\ latest \in Nat /\ latest' \in Nat
  BY SharedInvStep, SharedStoreAssumption DEF ReadersInv, SharedInv
<1>2. /\ Readers' = Readers /\ SeesLatest' = SeesLatest
      /\ poller' = poller /\ setting' = setting
  BY DEF Readers, SeesLatest
<1>3. ASSUME NEW r \in Readers PROVE ServedInv(r, poller[r])'
  <2>1. ServedInv(r, poller[r]) /\ poller[r].last \in Nat /\ poller[r].target \in Nat
    BY DEF ReadersInv, ServedInv, IsPoller
  <2>2. PICK x : x = poller[r]
    OBVIOUS
  <2>3. x.last <= latest' /\ x.target <= latest'
    BY <1>1, <2>1, <2>2 DEF ServedInv
  <2> QED BY <1>2, <2>1, <2>2, <2>3 DEF ServedInv
<1> QED BY <1>1, <1>2, <1>3 DEF ReadersInv

(* Steps of one reader. *)
LEMMA ReaderMoves ==
  ASSUME ReadersInv, UNCHANGED storeVars, UNCHANGED setting,
         NEW r \in Readers, NEW x, ServedInv(r, x), poller' = [poller EXCEPT ![r] = x]
  PROVE  ReadersInv'
<1>1. SharedInv'
  BY SharedInvStep DEF ReadersInv, StoreStep
<1>2. Readers' = Readers /\ SeesLatest' = SeesLatest /\ latest' = latest /\ setting' = setting
  BY DEF Readers, SeesLatest, storeVars
<1>3. poller' = [q \in Readers |-> IF q = r THEN x ELSE poller[q]]
  BY DEF ReadersInv
<1>4. ASSUME NEW q \in Readers PROVE ServedInv(q, poller[q])'
  <2>1. ServedInv(q, poller'[q])
    BY <1>3 DEF ReadersInv
  <2>2. PICK y : y = poller'[q]
    OBVIOUS
  <2> QED BY <1>2, <2>1, <2>2 DEF ServedInv
<1> QED BY <1>1, <1>2, <1>3, <1>4 DEF ReadersInv

LEMMA PollKeeps ==
  ASSUME ReadersInv, NEW r \in Readers, Poll(r)
  PROVE  ReadersInv'
<1>1. PICK x, y : x = poller[r] /\ y = [x EXCEPT !.target = latest]
  OBVIOUS
<1>2. ServedInv(r, x) /\ latest \in Nat /\ latest > x.last /\ SeesLatest
  BY <1>1, SharedStoreAssumption DEF ReadersInv, SharedInv, Poll
<1>3. x \in [target : Nat, last : Nat, zeroCopyReads : Nat, fallbackReads : Nat,
             errors : Nat, backoff : Nat, authors : {x.authors}]
  BY <1>2 DEF ServedInv, IsPoller
<1>4. /\ IsPoller(y) /\ y.target = latest /\ y.last = x.last /\ y.errors = x.errors
      /\ y.zeroCopyReads = x.zeroCopyReads /\ y.fallbackReads = x.fallbackReads
      /\ y.backoff = x.backoff
  BY <1>1, <1>2, <1>3 DEF IsPoller
<1>5. ServedInv(r, y)
  BY <1>2, <1>4 DEF ServedInv
<1>6. /\ UNCHANGED <<storeVars, setting>>
      /\ poller' = [poller EXCEPT ![r] = y]
  BY <1>1 DEF Poll
<1> QED BY <1>5, <1>6, ReaderMoves

LEMMA ReadKeeps ==
  ASSUME ReadersInv, NEW r \in Readers, Read(r)
  PROVE  ReadersInv'
<1>1. PICK x : x = poller[r]
  OBVIOUS
<1>2. /\ ServedInv(r, x) /\ x.target > 0 /\ latest \in Nat
      /\ UNCHANGED <<storeVars, setting>>
  BY <1>1, SharedStoreAssumption DEF ReadersInv, SharedInv, Read
<1>3. x \in [target : Nat, last : Nat, zeroCopyReads : Nat, fallbackReads : Nat,
             errors : Nat, backoff : Nat, authors : {x.authors}]
  BY <1>2 DEF ServedInv, IsPoller
<1>4. SeesLatest /\ x.target > x.last /\ x.target <= latest
  BY <1>2 DEF ServedInv
<1> DEFINE at(from, attempt) == from[IF attempt = "regular" THEN "regular" ELSE "zeroCopy"]
           works(from) == {i \in DOMAIN AttemptsOf(r) :
                             Reaches(at(from, AttemptsOf(r)[i]), Goal(r, AttemptsOf(r)[i]))}
           first(from) == CHOOSE i \in works(from) : \A j \in works(from) : i <= j
           outcome(from) ==
             IF works(from) = {} THEN Failed(x)
             ELSE Served(x, AttemptsOf(r)[first(from)],
                         AuthorsOfPlan(at(from, AttemptsOf(r)[first(from)]),
                                       Goal(r, AttemptsOf(r)[first(from)])))
<1>5. PICK from \in [{"zeroCopy", "regular"} -> 0..latest] :
        poller' = [poller EXCEPT ![r] = outcome(from)]
  BY <1>1, Zenon DEF Read
<1>6. /\ 1 \in DOMAIN AttemptsOf(r) /\ DOMAIN AttemptsOf(r) \subseteq Nat \ {0}
      /\ AttemptsOf(r)[1] \in {"zeroCopy", "regular"}
      /\ setting.strategies[r] # "fallback" => AttemptsOf(r)[1] # "regular"
  BY FirstAttempt DEF ReadersInv
<1>7. 1 \in works(from)
  <2>1. at(from, AttemptsOf(r)[1]) \in 0..latest
    BY <1>5, <1>6
  <2>2. Goal(r, AttemptsOf(r)[1]) \in 0..latest
    BY <1>1, <1>2, <1>3, <1>4 DEF Goal
  <2>3. Reaches(at(from, AttemptsOf(r)[1]), Goal(r, AttemptsOf(r)[1]))
    <3> HIDE DEF at
    <3> QED BY <2>1, <2>2, AnnouncedIsReached DEF ReadersInv
  <2> HIDE DEF at
  <2> QED BY <1>6, <2>3
<1>8. first(from) = 1
  <2>1. \A j \in works(from) : 1 <= j
    BY <1>6
  <2>2. \A i \in works(from) : (\A j \in works(from) : i <= j) => i = 1
    <3>1. \A i \in works(from) : i \in Nat \ {0}
      BY <1>6
    <3> HIDE DEF works
    <3> QED BY <1>7, <3>1
  <2> HIDE DEF works
  <2> QED BY <1>7, <2>1, <2>2
<1>9. PICK attempt, authors : /\ attempt = AttemptsOf(r)[1]
                              /\ outcome(from) = Served(x, attempt, authors)
  <2> HIDE DEF first, works, at
  <2> QED BY <1>7, <1>8
<1>10. PICK y : y = Served(x, attempt, authors)
  OBVIOUS
<1>11. /\ IsPoller(y) /\ y.last = x.target /\ y.target = 0 /\ y.backoff = InitialBackoff
       /\ y.errors = x.errors
       /\ y.zeroCopyReads + y.fallbackReads = x.zeroCopyReads + x.fallbackReads + 1
       /\ attempt # "regular" => y.fallbackReads = x.fallbackReads
  <2>1. PICK counted : counted = IF attempt = "regular" THEN [x EXCEPT !.fallbackReads = @ + 1]
                                 ELSE [x EXCEPT !.zeroCopyReads = @ + 1]
    OBVIOUS
  <2>2. /\ counted \in [target : Nat, last : Nat, zeroCopyReads : Nat, fallbackReads : Nat,
                        errors : Nat, backoff : Nat, authors : {x.authors}]
        /\ counted.errors = x.errors
        /\ counted.zeroCopyReads + counted.fallbackReads = x.zeroCopyReads + x.fallbackReads + 1
        /\ attempt # "regular" => counted.fallbackReads = x.fallbackReads
    BY <1>3, <2>1
  <2>3. y = [counted EXCEPT !.last = x.target, !.target = 0, !.backoff = InitialBackoff,
                            !.authors = authors]
    BY <1>10, <2>1 DEF Served
  <2>4. /\ IsPoller(y) /\ y.last = x.target /\ y.target = 0 /\ y.backoff = InitialBackoff
        /\ y.errors = counted.errors /\ y.zeroCopyReads = counted.zeroCopyReads
        /\ y.fallbackReads = counted.fallbackReads
    BY <1>3, <2>2, <2>3, ReadersAssumption DEF IsPoller
  <2> QED BY <2>2, <2>4
<1>12. ServedInv(r, y)
  BY <1>2, <1>3, <1>4, <1>6, <1>9, <1>11, ReadersAssumption DEF ServedInv
<1> HIDE DEF outcome
<1> QED BY <1>2, <1>5, <1>9, <1>10, <1>12, ReaderMoves

LEMMA ErrorKeeps ==
  ASSUME ReadersInv, NEW r \in Readers, ProcessNewDataFails(r)
  PROVE  ReadersInv'
<1>1. PICK x, y : x = poller[r] /\ y = Failed(x)
  OBVIOUS
<1>2. /\ ServedInv(r, x) /\ ~SeesLatest /\ latest \in Nat
      /\ UNCHANGED <<storeVars, setting>>
      /\ poller' = [poller EXCEPT ![r] = y]
  BY <1>1, SharedStoreAssumption DEF ReadersInv, SharedInv, ProcessNewDataFails
<1>3. x \in [target : Nat, last : Nat, zeroCopyReads : Nat, fallbackReads : Nat,
             errors : Nat, backoff : Nat, authors : {x.authors}]
  BY <1>2 DEF ServedInv, IsPoller
<1>4. PICK d : d = IncreaseBackoff(x.backoff)
  OBVIOUS
<1>5. d \in (InitialBackoff + 1)..MaxBackoff /\ d \in Nat
  BY <1>2, <1>4, BackoffGrows, ReadersAssumption DEF ServedInv
<1>6. y = [x EXCEPT !.target = 0, !.errors = @ + 1, !.backoff = d]
  BY <1>1, <1>4, Zenon DEF Failed
<1>7. /\ IsPoller(y) /\ y.target = 0 /\ y.last = x.last /\ y.backoff = d
      /\ y.zeroCopyReads = x.zeroCopyReads /\ y.fallbackReads = x.fallbackReads
  <2>1. y \in [target : Nat, last : Nat, zeroCopyReads : Nat, fallbackReads : Nat,
               errors : Nat, backoff : Nat, authors : {x.authors}]
    <3>1. d \in Nat /\ x.errors + 1 \in Nat
      BY <1>3, <1>5
    <3>2. PICK e : e = x.errors + 1
      OBVIOUS
    <3>3. y = [x EXCEPT !.target = 0, !.errors = e, !.backoff = d]
      BY <1>6, <3>2
    <3> QED BY <1>3, <3>1, <3>2, <3>3
  <2>2. /\ y.target = 0 /\ y.last = x.last /\ y.backoff = d /\ y.authors = x.authors
        /\ y.zeroCopyReads = x.zeroCopyReads /\ y.fallbackReads = x.fallbackReads
    BY <1>3, <1>6
  <2> QED BY <2>1, <2>2 DEF IsPoller
<1>8. ServedInv(r, y)
  BY <1>2, <1>5, <1>7, ReadersAssumption DEF ServedInv
<1> QED BY <1>2, <1>8, ReaderMoves

LEMMA ReadersStep == ReadersInv /\ [ReadersNext]_readerVars => ReadersInv'
<1> SUFFICES ASSUME ReadersInv, [ReadersNext]_readerVars PROVE ReadersInv'
  OBVIOUS
<1>1. ASSUME NEW w \in Writers,
             \/ WriterStores(w) \/ WriterCounts(w)
             \/ RunWriterFails(w) \/ RunHighFrequencyWriterFails(w)
      PROVE  ReadersInv'
  <2>1. StoreStep /\ UNCHANGED <<setting, poller>>
    BY <1>1 DEF WriterStores, WriterCounts, RunWriterFails, RunHighFrequencyWriterFails,
                StoreStep, readerOwnVars
  <2> QED BY <2>1, ReadersWait
<1>2. ASSUME NEW r \in Readers, Poll(r) \/ Read(r) \/ ProcessNewDataFails(r)
      PROVE  ReadersInv'
  BY <1>2, PollKeeps, ReadKeeps, ErrorKeeps
<1>3. CASE ReportStatistics \/ TimeOut \/ UNCHANGED readerVars
  <2>1. StoreStep /\ UNCHANGED <<setting, poller>>
    BY <1>3 DEF ReportStatistics, TimeOut, readerVars, readerOwnVars, StoreStep
  <2> QED BY <2>1, ReadersWait
<1> QED BY <1>1, <1>2, <1>3 DEF ReadersNext

(***************************************************************************)
(* Wherever a consumer stands it can be refreshed to the version that was  *)
(* announced, although producers count versions by themselves, fail and    *)
(* overwrite each other's blobs.                                           *)
(***************************************************************************)
THEOREM AnnouncedStaysReachable == ReadersSpec => []AnnouncedIsReachable
<1>1. ReadersInv => AnnouncedIsReachable
  <2> SUFFICES ASSUME ReadersInv, NEW to \in 1..latest, NEW from \in 0..to
               PROVE  Reaches(from, to)
    BY DEF AnnouncedIsReachable
  <2>1. latest \in Nat /\ to \in 0..latest /\ from \in 0..latest
    BY SharedStoreAssumption DEF ReadersInv, SharedInv
  <2> QED BY <2>1, AnnouncedIsReached DEF ReadersInv
<1> QED BY <1>1, ReadersInvInit, ReadersStep, PTL DEF ReadersSpec

(***************************************************************************)
(* The first attempt of a reader (RunConsumer, ProcessNewData and the      *)
(* strategies of the stress test) reaches every version it was told of, so *)
(* that fallbacks are never used and every read counts once.               *)
(***************************************************************************)
THEOREM PollsAreServed == ReadersSpec => []EveryPollIsServed
<1>1. ReadersInv => EveryPollIsServed
  <2> SUFFICES ASSUME ReadersInv, NEW r \in Readers
               PROVE  /\ SeesLatest => poller[r].errors = 0 /\ poller[r].backoff = InitialBackoff
                      /\ setting.strategies[r] # "fallback" => poller[r].fallbackReads = 0
                      /\ poller[r].errors > 0 => poller[r].backoff \in (InitialBackoff + 1)..MaxBackoff
                      /\ Reads(r) <= poller[r].last /\ poller[r].last <= latest
    BY DEF EveryPollIsServed
  <2> QED BY DEF ReadersInv, ServedInv, Reads
<1> QED BY <1>1, ReadersInvInit, ReadersStep, PTL DEF ReadersSpec

(***************************************************************************)
(* The pool                                                                *)
(***************************************************************************)
Loops == {"new", "starting", "running", "flushing", "closing", "stopped", "failed"}

IsProductionProducer(p) ==
  p \in [loop : Loops, pending : Seq(Range(Feed)), waking : Nat, late : SUBSET Range(Feed)]

IsBatch(f) ==
  f \in [by : Writers, who : {"initial", "loop", "shutdown", "auto"},
         records : Seq(Range(Feed)), tries : Nat, at : {"cycle", "announce"}]

(* What the property says of one producer; a loop that has taken its last  *)
(* batch has left nothing behind already.                                  *)
QueueInv(p) ==
  /\ IsProductionProducer(p)
  /\ Len(p.pending) >= BatchSize => p.waking > 0
  /\ p.loop \in {"closing", "stopped"} => ToSet(p.pending) \subseteq p.late

(* Where a loop is while a batch of its own is being published. *)
During == [initial |-> "starting", loop |-> "flushing", shutdown |-> "closing"]

PoolInv ==
  /\ fed \in Nat
  /\ pool = [w \in Writers |-> pool[w]]
  /\ \A w \in Writers : QueueInv(pool[w])
  /\ \A f \in flushes : IsBatch(f)
  /\ \A f \in flushes : f.who # "auto" => pool[f.by].loop = During[f.who]
  /\ \A f, g \in flushes : f.by = g.by /\ f.who # "auto" /\ g.who # "auto" => f = g

LEMMA PoolInvInit == PoolInit(SnapshotFrequency) => PoolInv
<1> SUFFICES ASSUME PoolInit(SnapshotFrequency) PROVE PoolInv
  OBVIOUS
<1>1. fed = 0 /\ flushes = {} /\ pool = [w \in Writers |-> NewProductionProducer]
  BY DEF PoolInit
<1>2. /\ IsProductionProducer(NewProductionProducer)
      /\ NewProductionProducer.pending = <<>> /\ NewProductionProducer.loop = "new"
  BY DEF NewProductionProducer, IsProductionProducer, Loops
<1>3. QueueInv(NewProductionProducer)
  BY <1>2, PoolAssumption DEF QueueInv
<1> QED BY <1>1, <1>3 DEF PoolInv

LEMMA BothParts ==
  ASSUME NEW S, NEW s \in Seq(S), NEW t \in Seq(S)
  PROVE  ToSet(s \o t) \subseteq ToSet(s) \cup ToSet(t) /\ ToSet(t) \subseteq S
<1>1. ASSUME NEW i \in DOMAIN (s \o t) PROVE (s \o t)[i] \in ToSet(s) \cup ToSet(t)
  <2>1. i \in 1..(Len(s) + Len(t)) /\ Len(s) \in Nat /\ Len(t) \in Nat
    OBVIOUS
  <2>2. CASE i <= Len(s)
    BY <2>1, <2>2 DEF ToSet
  <2>3. CASE i > Len(s)
    <3>1. i - Len(s) \in DOMAIN t /\ (s \o t)[i] = t[i - Len(s)]
      BY <2>1, <2>3
    <3> QED BY <3>1 DEF ToSet
  <2> QED BY <2>1, <2>2, <2>3
<1>2. ToSet(s \o t) \subseteq ToSet(s) \cup ToSet(t)
  <2> DEFINE both == s \o t
  <2> HIDE DEF both
  <2>1. \A x \in ToSet(both) : \E i \in DOMAIN both : x = both[i]
    BY DEF ToSet
  <2> QED BY <1>1, <2>1 DEF both
<1>3. ToSet(t) \subseteq S
  BY DEF ToSet
<1> QED BY <1>2, <1>3

LEMMA QueueKeeps ==
  ASSUME NEW p, QueueInv(p), NEW records \in Seq(Range(Feed))
  PROVE  QueueInv(Queue(p, records)) /\ Queue(p, records).loop = p.loop
<1>1. p \in [loop : Loops, pending : Seq(Range(Feed)), waking : Nat, late : SUBSET Range(Feed)]
  BY DEF QueueInv, IsProductionProducer
<1>2. PICK pending : pending = p.pending \o records
  OBVIOUS
<1>3. /\ pending \in Seq(Range(Feed)) /\ Len(pending) \in Nat
      /\ ToSet(pending) \subseteq ToSet(p.pending) \cup ToSet(records)
      /\ ToSet(records) \subseteq Range(Feed)
  BY <1>1, <1>2, BothParts
<1>4. PICK waking, late :
        /\ waking = IF Len(pending) >= BatchSize THEN p.waking + 1 ELSE p.waking
        /\ late = IF p.loop \in {"closing", "stopped"} THEN p.late \cup ToSet(records) ELSE p.late
  OBVIOUS
<1>5. waking \in Nat /\ late \in SUBSET Range(Feed)
  BY <1>1, <1>3, <1>4
<1>6. PICK q : q = Queue(p, records)
  OBVIOUS
<1>7. q = [p EXCEPT !.pending = pending, !.waking = waking, !.late = late]
  BY <1>2, <1>4, <1>6, Zenon DEF Queue
<1>8. /\ IsProductionProducer(q) /\ q.loop = p.loop /\ q.pending = pending
      /\ q.waking = waking /\ q.late = late
  BY <1>1, <1>3, <1>5, <1>7 DEF IsProductionProducer
<1>9. Len(pending) >= BatchSize => waking > 0
  BY <1>1, <1>4
<1>10. p.loop \in {"closing", "stopped"} => ToSet(pending) \subseteq late
  BY <1>3, <1>4 DEF QueueInv
<1> QED BY <1>6, <1>8, <1>9, <1>10 DEF QueueInv

LEMMA PieceIsTyped ==
  ASSUME NEW S, NEW s \in Seq(S), NEW m \in Nat \ {0}, NEW n \in Int, n <= Len(s)
  PROVE  SubSeq(s, m, n) \in Seq(S)
OBVIOUS

(* Callers add records; nothing else changes for the loops. *)
LEMMA DistributeKeeps ==
  ASSUME PoolInv, NEW chunks, \A w \in Writers : chunks[w] \in Seq(Range(Feed)),
         Distribute(chunks), fed' \in Nat
  PROVE  PoolInv'
<1>1. PICK taken : pool' = [w \in Writers |-> IF w \in taken THEN Queue(pool[w], chunks[w])
                                              ELSE pool[w]]
  BY DEF Distribute
<1>2. ASSUME NEW w \in Writers PROVE QueueInv(pool'[w]) /\ pool'[w].loop = pool[w].loop
  BY <1>1, QueueKeeps DEF PoolInv
<1>3. pool' = [w \in Writers |-> pool'[w]] /\ flushes' = flushes
  BY <1>1 DEF Distribute
<1>4. \A f \in flushes : f.by \in Writers
  BY DEF PoolInv, IsBatch
<1> HIDE DEF Distribute
<1>5. \A f \in flushes : f.who # "auto" => pool'[f.by].loop = During[f.who]
  BY <1>2, <1>4 DEF PoolInv
<1> QED BY <1>2, <1>3, <1>5 DEF PoolInv

LEMMA AddingKeeps ==
  ASSUME PoolInv, AddRecord \/ \E count \in 2..Len(Feed) : AddRecords(count)
  PROVE  PoolInv'
<1>1. /\ Feed \in Seq(Range(Feed)) /\ Len(Feed) \in Nat /\ fed \in Nat
  BY PoolAssumption DEF PoolInv
<1>2. CASE AddRecord
  <2>1. fed + 1 \in DOMAIN Feed /\ fed' = fed + 1
    BY <1>1, <1>2 DEF AddRecord
  <2>2. <<Feed[fed + 1]>> \in Seq(Range(Feed)) /\ <<>> \in Seq(Range(Feed))
    BY <1>1, <2>1
  <2> DEFINE chunks == [w \in Writers |->
                IF w = (roundRobin' % Cardinality(Writers)) + 1 THEN <<Feed[fed + 1]>> ELSE <<>>]
  <2>3. \A w \in Writers : chunks[w] \in Seq(Range(Feed))
    BY <2>2
  <2>4. Distribute(chunks)
    BY <1>2 DEF AddRecord
  <2> HIDE DEF chunks
  <2> QED BY <1>1, <2>1, <2>3, <2>4, DistributeKeeps
<1>3. ASSUME NEW count \in 2..Len(Feed), AddRecords(count) PROVE PoolInv'
  <2> DEFINE records == SubSeq(Feed, fed + 1, fed + count)
             n == Cardinality(Writers)
             size == IF Len(records) < n THEN 1 ELSE Len(records) \div n
             end(w) == IF w = n THEN Len(records) ELSE Min({w * size, Len(records)})
  <2>1. fed' = fed + count /\ fed + count <= Len(Feed) /\ Distribute(Chunks(records))
    BY <1>3 DEF AddRecords
  <2>2. records \in Seq(Range(Feed)) /\ Len(records) \in Nat
    BY <1>1, <1>3, <2>1, PieceIsTyped
  <2>3. ASSUME NEW w \in Writers PROVE Chunks(records)[w] \in Seq(Range(Feed))
    <3>1. n \in Nat \ {0} /\ w \in Nat \ {0}
      BY FS_CardinalityType, SharedStoreAssumption
    <3>2. size \in Nat
      <4> HIDE DEF records, n
      <4> QED BY <2>2, <3>1
    <3>3. (w - 1) * size + 1 \in Nat \ {0} /\ w * size \in Nat
      <4> HIDE DEF size
      <4> QED BY <3>1, <3>2
    <3>4. end(w) \in Int /\ end(w) <= Len(records)
      <4>1. \A a, b \in Nat : Min({a, b}) \in Nat /\ Min({a, b}) <= b
        BY DEF Min
      <4> HIDE DEF records, size, n
      <4> QED BY <2>2, <3>3, <4>1
    <3>5. Chunks(records)[w] = SubSeq(records, (w - 1) * size + 1, end(w))
      BY DEF Chunks
    <3> HIDE DEF records, size, end
    <3> QED BY <2>2, <3>3, <3>4, <3>5, PieceIsTyped
  <2> HIDE DEF records
  <2> QED BY <1>1, <1>3, <2>1, <2>3, DistributeKeeps
<1> QED BY <1>2, <1>3

(* No batch of its own is under way for a loop that is at one of these     *)
(* places.                                                                 *)
LEMMA NoOwnBatch ==
  ASSUME PoolInv, NEW w \in Writers, pool[w].loop \in {"new", "running", "stopped", "failed"},
         NEW f \in flushes, f.by = w
  PROVE  f.who = "auto"
<1>1. IsBatch(f) /\ (f.who # "auto" => pool[w].loop = During[f.who])
  BY DEF PoolInv
<1> QED BY <1>1 DEF IsBatch, During

(* A loop moves, or its queue is emptied; a batch of its own may start.    *)
LEMMA LoopKeeps ==
  ASSUME PoolInv, NEW w \in Writers, NEW q, QueueInv(q), fed' = fed,
         pool' = [pool EXCEPT ![w] = q],
         \A f \in flushes : f.by = w /\ f.who # "auto" => q.loop = During[f.who],
         \/ flushes' = flushes
         \/ \E f \in flushes : flushes' = flushes \ {f}
         \/ \E g : /\ flushes' = flushes \cup {g} /\ IsBatch(g) /\ g.by = w
                   /\ g.who # "auto" =>
                        /\ q.loop = During[g.who]
                        /\ \A f \in flushes : f.by = w => f.who = "auto"
  PROVE  PoolInv'
<1>1. pool' = [u \in Writers |-> IF u = w THEN q ELSE pool[u]]
  BY DEF PoolInv
<1>2. pool' = [u \in Writers |-> pool'[u]] /\ \A u \in Writers : QueueInv(pool'[u])
  BY <1>1 DEF PoolInv
<1>3. ASSUME NEW f \in flushes PROVE f.who # "auto" => pool'[f.by].loop = During[f.who]
  <2>1. f.by \in Writers /\ (f.who # "auto" => pool[f.by].loop = During[f.who])
    BY DEF PoolInv, IsBatch
  <2> QED BY <1>1, <2>1
<1>4. CASE flushes' \subseteq flushes
  BY <1>2, <1>3, <1>4 DEF PoolInv
<1>5. ASSUME NEW g, flushes' = flushes \cup {g}, IsBatch(g), g.by = w,
             g.who # "auto" => /\ q.loop = During[g.who]
                               /\ \A f \in flushes : f.by = w => f.who = "auto"
      PROVE  PoolInv'
  <2>1. \A f \in flushes' : IsBatch(f)
    BY <1>5 DEF PoolInv
  <2>2. g.who # "auto" => pool'[g.by].loop = During[g.who]
    BY <1>1, <1>5
  <2>3. \A f \in flushes' : f.who # "auto" => pool'[f.by].loop = During[f.who]
    BY <1>3, <1>5, <2>2
  <2>4. \A f, h \in flushes' : f.by = h.by /\ f.who # "auto" /\ h.who # "auto" => f = h
    BY <1>5 DEF PoolInv
  <2> QED BY <1>2, <2>1, <2>3, <2>4 DEF PoolInv
<1> QED BY <1>4, <1>5

LEMMA TakeKeeps ==
  ASSUME PoolInv, NEW w \in Writers, NEW who \in {"initial", "loop", "shutdown", "auto"}, NEW p,
         IsProductionProducer(p), fed' = fed,
         IF who = "auto" THEN p.loop = pool[w].loop
         ELSE p.loop = During[who] /\ pool[w].loop = "running",
         TakeBatch(w, who, p)
  PROVE  PoolInv'
<1>1. p \in [loop : Loops, pending : Seq(Range(Feed)), waking : Nat, late : SUBSET Range(Feed)]
  BY DEF IsProductionProducer
<1>2. PICK none, q, g : /\ none = <<>> /\ q = [p EXCEPT !.pending = none]
                        /\ g = Batch(w, who, p.pending)
  OBVIOUS
<1>3. IsProductionProducer(q) /\ q.pending = <<>> /\ q.loop = p.loop
  <2>1. none \in Seq(Range(Feed))
    BY <1>2
  <2>2. q = [p EXCEPT !.pending = none]
    BY <1>2
  <2>3. IsProductionProducer(q) /\ q.pending = none /\ q.loop = p.loop
    BY <1>1, <2>1, <2>2 DEF IsProductionProducer
  <2> QED BY <1>2, <2>3
<1>4. QueueInv(q)
  BY <1>3, PoolAssumption DEF QueueInv, ToSet
<1>5. IsBatch(g) /\ g.by = w /\ g.who = who
  BY <1>1, <1>2 DEF IsBatch, Batch
<1>6. pool' = [pool EXCEPT ![w] = q] /\ flushes' = flushes \cup {g}
  BY <1>2 DEF TakeBatch
<1>7. ASSUME NEW f \in flushes, f.by = w, f.who # "auto" PROVE who = "auto"
  BY <1>7, NoOwnBatch
<1>8. \A f \in flushes : f.by = w /\ f.who # "auto" => q.loop = During[f.who]
  BY <1>3, <1>7 DEF PoolInv
<1>9. \E h : /\ flushes' = flushes \cup {h} /\ IsBatch(h) /\ h.by = w
             /\ h.who # "auto" =>
                  /\ q.loop = During[h.who]
                  /\ \A f \in flushes : f.by = w => f.who = "auto"
  BY <1>3, <1>5, <1>6, <1>7
<1> QED BY <1>4, <1>6, <1>8, <1>9, LoopKeeps

LEMMA NothingKeeps ==
  ASSUME PoolInv, NEW w \in Writers, NEW p, IsProductionProducer(p), fed' = fed,
         p.loop = pool[w].loop \/ pool[w].loop = "running",
         NothingTaken(w, p)
  PROVE  PoolInv'
<1>1. QueueInv(p)
  BY PoolAssumption DEF NothingTaken, QueueInv, ToSet
<1>2. pool' = [pool EXCEPT ![w] = p] /\ flushes' = flushes
  BY DEF NothingTaken
<1>3. \A f \in flushes : f.by = w /\ f.who # "auto" => p.loop = During[f.who]
  BY NoOwnBatch DEF PoolInv
<1> QED BY <1>1, <1>2, <1>3, LoopKeeps

LEMMA FlushingKeeps ==
  ASSUME PoolInv, NEW w \in Writers, AutoFlush(w) \/ Tick(w) \/ GracefulShutdown(w)
  PROVE  PoolInv'
<1>1. PICK x : x = pool[w]
  OBVIOUS
<1>2. /\ x \in [loop : Loops, pending : Seq(Range(Feed)), waking : Nat, late : SUBSET Range(Feed)]
      /\ QueueInv(x)
  BY <1>1 DEF PoolInv, QueueInv, IsProductionProducer
<1>3. fed' = fed
  BY DEF AutoFlush, Tick, GracefulShutdown, ElsewhereInPool
<1>4. CASE AutoFlush(w)
  <2>1. PICK p : p = [x EXCEPT !.waking = @ - 1]
    OBVIOUS
  <2>2. x.waking > 0 /\ (TakeBatch(w, "auto", p) \/ NothingTaken(w, p))
    BY <1>1, <1>4, <2>1 DEF AutoFlush
  <2>3. x.waking - 1 \in Nat
    BY <1>2, <2>2
  <2>4. IsProductionProducer(p) /\ p.loop = x.loop /\ p.pending = x.pending /\ p.late = x.late
    BY <1>2, <2>1, <2>3 DEF IsProductionProducer
  <2>5. CASE TakeBatch(w, "auto", p)
    BY <1>1, <1>3, <2>4, <2>5, TakeKeeps
  <2>6. CASE NothingTaken(w, p)
    BY <1>1, <1>3, <2>4, <2>6, NothingKeeps
  <2> QED BY <2>2, <2>5, <2>6
<1>5. CASE Tick(w)
  <2>1. PICK p : p = [x EXCEPT !.loop = "flushing"]
    OBVIOUS
  <2>2. x.loop = "running" /\ TakeBatch(w, "loop", p)
    BY <1>1, <1>5, <2>1 DEF Tick
  <2>3. IsProductionProducer(p) /\ p.loop = "flushing"
    BY <1>2, <2>1 DEF IsProductionProducer, Loops
  <2> QED BY <1>1, <1>3, <2>2, <2>3, TakeKeeps DEF During
<1>6. CASE GracefulShutdown(w)
  <2>1. PICK p, s : p = [x EXCEPT !.loop = "closing"] /\ s = [x EXCEPT !.loop = "stopped"]
    OBVIOUS
  <2>2. x.loop = "running" /\ (TakeBatch(w, "shutdown", p) \/ NothingTaken(w, s))
    BY <1>1, <1>6, <2>1 DEF GracefulShutdown
  <2>3. /\ IsProductionProducer(p) /\ p.loop = "closing"
        /\ IsProductionProducer(s)
    BY <1>2, <2>1 DEF IsProductionProducer, Loops
  <2>4. CASE TakeBatch(w, "shutdown", p)
    BY <1>1, <1>3, <2>2, <2>3, <2>4, TakeKeeps DEF During
  <2>5. CASE NothingTaken(w, s)
    BY <1>1, <1>3, <2>2, <2>3, <2>5, NothingKeeps
  <2> QED BY <2>2, <2>4, <2>5
<1> QED BY <1>4, <1>5, <1>6

(* Another place of a loop; only when it stops what it leaves matters.     *)
LEMMA PlaceKeeps ==
  ASSUME NEW p, QueueInv(p), NEW place \in Loops,
         place \in {"closing", "stopped"} => p.loop \in {"closing", "stopped"},
         NEW q, q = [p EXCEPT !.loop = place]
  PROVE  QueueInv(q) /\ q.loop = place
<1>1. p \in [loop : Loops, pending : Seq(Range(Feed)), waking : Nat, late : SUBSET Range(Feed)]
  BY DEF QueueInv, IsProductionProducer
<1>2. /\ IsProductionProducer(q) /\ q.loop = place /\ q.pending = p.pending
      /\ q.waking = p.waking /\ q.late = p.late
  BY <1>1 DEF IsProductionProducer
<1> QED BY <1>2 DEF QueueInv

LEMMA StartKeeps ==
  ASSUME PoolInv, NEW w \in Writers, CreateInitialSnapshot(w) \/ SimpleStart(w)
  PROVE  PoolInv'
<1>1. PICK x : x = pool[w]
  OBVIOUS
<1>2. QueueInv(x) /\ x.loop = "new" /\ fed' = fed
  BY <1>1 DEF PoolInv, CreateInitialSnapshot, SimpleStart, Unfed
<1>3. \A f \in flushes : f.by = w => f.who = "auto"
  BY <1>1, <1>2, NoOwnBatch
<1>4. CASE CreateInitialSnapshot(w)
  <2>1. PICK q, g : q = [x EXCEPT !.loop = "starting"] /\ g = Batch(w, "initial", <<>>)
    OBVIOUS
  <2>2. QueueInv(q) /\ q.loop = "starting"
    BY <1>2, <2>1, PlaceKeeps DEF Loops
  <2>3. IsBatch(g) /\ g.by = w /\ g.who = "initial"
    BY <2>1 DEF Batch, IsBatch
  <2>4. pool' = [pool EXCEPT ![w] = q] /\ flushes' = flushes \cup {g}
    BY <1>1, <1>4, <2>1 DEF CreateInitialSnapshot
  <2>5. \E h : /\ flushes' = flushes \cup {h} /\ IsBatch(h) /\ h.by = w
               /\ h.who # "auto" =>
                    /\ q.loop = During[h.who]
                    /\ \A f \in flushes : f.by = w => f.who = "auto"
    BY <1>3, <2>2, <2>3, <2>4 DEF During
  <2> QED BY <1>2, <1>3, <2>2, <2>4, <2>5, LoopKeeps
<1>5. CASE SimpleStart(w)
  <2>1. PICK q : q = [x EXCEPT !.loop = "running"]
    OBVIOUS
  <2>2. QueueInv(q) /\ q.loop = "running"
    BY <1>2, <2>1, PlaceKeeps DEF Loops
  <2>3. pool' = [pool EXCEPT ![w] = q] /\ flushes' = flushes
    BY <1>1, <1>5, <2>1 DEF SimpleStart
  <2> QED BY <1>2, <1>3, <2>2, <2>3, LoopKeeps
<1> QED BY <1>4, <1>5

LEMMA OverKeeps ==
  ASSUME PoolInv, NEW f \in flushes, NEW done, Over(f, done), fed' = fed
  PROVE  PoolInv'
<1>1. PICK w, x : w = f.by /\ x = pool[w]
  OBVIOUS
<1>2. /\ IsBatch(f) /\ w \in Writers /\ QueueInv(x)
      /\ f.who # "auto" => x.loop = During[f.who]
  BY <1>1 DEF PoolInv, IsBatch
<1>3. f.who \in {"initial", "loop", "shutdown", "auto"} /\ x.loop \in Loops
  BY <1>2 DEF IsBatch, QueueInv, IsProductionProducer
<1>4. PICK place : place = LoopAfter(f, done)
  OBVIOUS
<1>5. /\ place \in Loops
      /\ place \in {"closing", "stopped"} => x.loop \in {"closing", "stopped"}
      /\ f.who = "auto" => place = x.loop
  <2>1. CASE f.who = "auto"
    BY <1>1, <1>3, <1>4, <2>1 DEF LoopAfter
  <2>2. CASE f.who = "initial"
    BY <1>4, <2>2 DEF LoopAfter, Loops
  <2>3. CASE f.who = "loop"
    BY <1>4, <2>3 DEF LoopAfter, Loops
  <2>4. CASE f.who = "shutdown"
    BY <1>2, <1>4, <2>4 DEF LoopAfter, Loops, During
  <2> QED BY <1>3, <2>1, <2>2, <2>3, <2>4
<1>6. PICK q : q = [x EXCEPT !.loop = place]
  OBVIOUS
<1>7. QueueInv(q) /\ q.loop = place
  BY <1>2, <1>5, <1>6, PlaceKeeps
<1>8. pool' = [pool EXCEPT ![w] = q] /\ flushes' = flushes \ {f}
  BY <1>1, <1>4, <1>6 DEF Over
<1>9. CASE f.who = "auto"
  <2>1. \A g \in flushes : g.by = w /\ g.who # "auto" => q.loop = During[g.who]
    BY <1>1, <1>5, <1>7, <1>9 DEF PoolInv
  <2> QED BY <1>2, <1>7, <1>8, <2>1, LoopKeeps
<1>10. CASE f.who # "auto"
  (* It was the only one of its loop. *)
  <2>1. \A g \in flushes' : g.by = w => g.who = "auto"
    BY <1>1, <1>8, <1>10 DEF PoolInv
  <2>2. pool' = [u \in Writers |-> IF u = w THEN q ELSE pool[u]]
    BY <1>8 DEF PoolInv
  <2>3. pool' = [u \in Writers |-> pool'[u]] /\ \A u \in Writers : QueueInv(pool'[u])
    BY <1>7, <2>2 DEF PoolInv
  <2>4. \A g \in flushes' : g \in flushes /\ g.by \in Writers
    BY <1>8 DEF PoolInv, IsBatch
  <2>5. \A g \in flushes' : g.who # "auto" => pool'[g.by].loop = During[g.who]
    BY <2>1, <2>2, <2>4 DEF PoolInv
  <2> QED BY <2>3, <2>4, <2>5 DEF PoolInv
<1> QED BY <1>9, <1>10

(* A batch goes on. *)
LEMMA BatchKeeps ==
  ASSUME PoolInv, NEW f \in flushes, NEW g, IsBatch(g), g.by = f.by, g.who = f.who,
         flushes' = (flushes \ {f}) \cup {g}, UNCHANGED <<pool, fed>>
  PROVE  PoolInv'
<1>1. \A h \in flushes' : IsBatch(h)
  BY DEF PoolInv
<1>2. \A h \in flushes' : h.who # "auto" => pool[h.by].loop = During[h.who]
  BY DEF PoolInv
<1>3. \A h, i \in flushes' : h.by = i.by /\ h.who # "auto" /\ i.who # "auto" => h = i
  BY DEF PoolInv
<1> QED BY <1>1, <1>2, <1>3 DEF PoolInv

LEMMA PublishingKeeps ==
  ASSUME PoolInv, NEW f \in flushes,
         RunCycle(f) \/ FlushRecordsBatch(f) \/ FlushFails(f) \/ SimpleFlush(f)
  PROVE  PoolInv'
<1>1. f \in [by : Writers, who : {"initial", "loop", "shutdown", "auto"},
             records : Seq(Range(Feed)), tries : Nat, at : {"cycle", "announce"}]
  BY DEF PoolInv, IsBatch
<1>2. fed' = fed
  BY DEF RunCycle, FlushRecordsBatch, FlushFails, SimpleFlush, Unfed
<1>3. CASE RunCycle(f)
  <2>1. PICK g : g = [f EXCEPT !.at = "announce"]
    OBVIOUS
  <2>2. IsBatch(g) /\ g.by = f.by /\ g.who = f.who
    BY <1>1, <2>1 DEF IsBatch
  <2>3. flushes' = (flushes \ {f}) \cup {g} /\ UNCHANGED pool
    BY <1>3, <2>1 DEF RunCycle
  <2> QED BY <1>2, <2>2, <2>3, BatchKeeps
<1>4. CASE FlushRecordsBatch(f) \/ SimpleFlush(f)
  <2>1. Over(f, TRUE)
    BY <1>4 DEF FlushRecordsBatch, SimpleFlush
  <2> QED BY <1>2, <2>1, OverKeeps
<1>5. CASE FlushFails(f)
  <2>1. PICK g : g = [f EXCEPT !.tries = @ + 1]
    OBVIOUS
  <2>2. IsBatch(g) /\ g.by = f.by /\ g.who = f.who
    BY <1>1, <2>1 DEF IsBatch
  <2>3. \/ Over(f, FALSE)
        \/ flushes' = (flushes \ {f}) \cup {g} /\ UNCHANGED pool
    BY <1>5, <2>1 DEF FlushFails
  <2>4. CASE Over(f, FALSE)
    BY <1>2, <2>4, OverKeeps
  <2>5. CASE flushes' = (flushes \ {f}) \cup {g} /\ UNCHANGED pool
    BY <1>2, <2>2, <2>5, BatchKeeps
  <2> QED BY <2>3, <2>4, <2>5
<1> QED BY <1>3, <1>4, <1>5

LEMMA PoolStep == PoolInv /\ [PoolNext]_poolVars => PoolInv'
<1> SUFFICES ASSUME PoolInv, [PoolNext]_poolVars PROVE PoolInv'
  OBVIOUS
<1>1. ASSUME UNCHANGED <<fed, pool, flushes>> PROVE PoolInv'
  BY <1>1, Zenon DEF PoolInv
<1>2. CASE AddRecord \/ \E count \in 2..Len(Feed) : AddRecords(count)
  BY <1>2, AddingKeeps
<1>3. ASSUME NEW w \in Writers,
             \/ CreateInitialSnapshot(w) \/ SimpleStart(w)
             \/ AutoFlush(w) \/ Tick(w) \/ GracefulShutdown(w)
      PROVE  PoolInv'
  BY <1>3, StartKeeps, FlushingKeeps
<1>4. ASSUME NEW w \in Writers, SimpleStop(w) PROVE PoolInv'
  BY <1>1, <1>4 DEF SimpleStop
<1>5. ASSUME NEW f \in flushes,
             RunCycle(f) \/ FlushRecordsBatch(f) \/ FlushFails(f) \/ SimpleFlush(f)
      PROVE  PoolInv'
  BY <1>5, PublishingKeeps
<1>6. CASE Cancel
  BY <1>1, <1>6 DEF Cancel
<1>7. CASE UNCHANGED poolVars
  BY <1>1, <1>7 DEF poolVars, poolOwnVars
<1> QED BY <1>2, <1>3, <1>4, <1>5, <1>6, <1>7 DEF PoolNext

(***************************************************************************)
(* A full batch always has a goroutine on its way to it, whatever ticks,   *)
(* other full batches, retries and the shutdown take meanwhile; and a loop *)
(* that has stopped leaves only records behind that came after its last    *)
(* flush (AddRecord, Start and flushPendingRecords).                       *)
(***************************************************************************)
THEOREM FullBatchesAreFlushed == PoolSpec => []FullBatchIsFlushed
<1>1. PoolInv => FullBatchIsFlushed
  BY DEF PoolInv, QueueInv, FullBatchIsFlushed
<1> QED BY <1>1, PoolInvInit, PoolStep, PTL DEF PoolSpec

(* Also what the pool has announced can be reached from everywhere.        *)
LEMMA PoolStoreStep ==
  SharedInv /\ PoolInv /\ [PoolNext]_poolVars => SharedInv'
<1> SUFFICES ASSUME PoolInv, [PoolNext]_poolVars PROVE StoreStep
  BY SharedInvStep
<1>1. CASE UNCHANGED storeVars
  BY <1>1 DEF StoreStep
<1>2. CASE AddRecord \/ \E count \in 2..Len(Feed) : AddRecords(count)
  BY <1>1, <1>2 DEF AddRecord, AddRecords, Distribute
<1>3. ASSUME NEW w \in Writers,
             \/ CreateInitialSnapshot(w) \/ SimpleStart(w) \/ SimpleStop(w)
             \/ AutoFlush(w) \/ Tick(w) \/ GracefulShutdown(w)
      PROVE  StoreStep
  BY <1>1, <1>3 DEF CreateInitialSnapshot, SimpleStart, SimpleStop, AutoFlush, Tick,
                    GracefulShutdown, ElsewhereInPool
<1>4. ASSUME NEW f \in flushes,
             RunCycle(f) \/ FlushRecordsBatch(f) \/ FlushFails(f) \/ SimpleFlush(f)
      PROVE  StoreStep
  <2>1. f.by \in Writers
    BY DEF PoolInv, IsBatch
  <2>2. \/ StoreBlob(f.by) \/ StoreFails(f.by) \/ Announce(f.by)
        \/ UNCHANGED storeVars
    BY <1>4 DEF RunCycle, FlushRecordsBatch, FlushFails, SimpleFlush
  <2> QED BY <2>1, <2>2 DEF StoreStep
<1>5. CASE Cancel \/ UNCHANGED poolVars
  BY <1>1, <1>5 DEF Cancel, poolVars
<1> QED BY <1>2, <1>3, <1>4, <1>5 DEF PoolNext

(***************************************************************************)
(* So it can while the pools of the examples write: the flushes of several *)
(* writers, whole batches or simple ones, only ever reach the store as     *)
(* cycles of their producers that succeed or fail.                         *)
(***************************************************************************)
THEOREM PoolStaysReachable == PoolSpec => []AnnouncedIsReachable
<1>1. PoolInit(SnapshotFrequency) => SharedInv
  BY SharedInvInit, PoolAssumption DEF PoolInit
<1>2. SharedInv => AnnouncedIsReachable
  <2> SUFFICES ASSUME SharedInv, NEW to \in 1..latest, NEW from \in 0..to
               PROVE  Reaches(from, to)
    BY DEF AnnouncedIsReachable
  <2>1. latest \in Nat /\ to \in 0..latest /\ from \in 0..latest
    BY SharedStoreAssumption DEF SharedInv
  <2> QED BY <2>1, AnnouncedIsReached
<1> QED BY <1>1, <1>2, PoolInvInit, PoolStep, PoolStoreStep, PTL DEF PoolSpec

(***************************************************************************)
(* The records of the pool                                                 *)
(***************************************************************************)

(* What the property says of one record. *)
OnePlace(r) ==
  IF Offered(r) THEN \E p \in Places(r) : Places(r) = {p} ELSE Places(r) = {}

(* A record that is in one place is in one place when it has moved.        *)
LEMMA Moved ==
  ASSUME NEW P, NEW Q, NEW old, NEW new, DOMAIN old = DOMAIN new, IsInjective(old),
         Range(old) \subseteq P, Q = (P \ Range(old)) \cup Range(new)
  PROVE  /\ P = {} => Q = {}
         /\ (\E p \in P : P = {p}) => \E q \in Q : Q = {q}
<1>1. CASE DOMAIN old = {}
  BY <1>1 DEF Range
<1>2. ASSUME NEW i \in DOMAIN old PROVE P # {}
  BY DEF Range
<1>3. ASSUME NEW i \in DOMAIN old, NEW p \in P, P = {p} PROVE \E q \in Q : Q = {q}
  <2>1. \A j \in DOMAIN old : old[j] = p
    BY <1>3 DEF Range
  <2>2. \A j \in DOMAIN old : j = i
    BY <2>1 DEF IsInjective
  <2>3. Range(old) = {p} /\ Range(new) = {new[i]}
    BY <2>1, <2>2 DEF Range
  <2> QED BY <1>3, <2>3
<1> QED BY <1>1, <1>2, <1>3

(* The places of a record among published batches, without the unions. *)
LEMMA VersionsOf ==
  ASSUME NEW r
  PROVE  \A x : /\ x \in InVersions(r) <=>
                     \E w \in Writers : \E b \in DOMAIN published[w] :
                        \E i \in IndicesOf(published[w][b], r) : x = <<"version", <<w, b>>, i>>
                /\ x \in InVersions(r)' <=>
                     \E w \in Writers : \E b \in DOMAIN published'[w] :
                        \E i \in IndicesOf(published'[w][b], r) : x = <<"version", <<w, b>>, i>>
BY DEF InVersions

(* The same for its other places. *)
LEMMA PlacesOf ==
  ASSUME NEW r
  PROVE  \A x : /\ x \in InQueues(r) <=>
                     \E w \in Writers : \E i \in IndicesOf(pool[w].pending, r) : x = <<"queue", w, i>>
                /\ x \in InQueues(r)' <=>
                     \E w \in Writers : \E i \in IndicesOf(pool'[w].pending, r) : x = <<"queue", w, i>>
                /\ x \in InBatches(r) <=>
                     \E f \in flushes : \E i \in IndicesOf(f.records, r) : x = <<"batch", f, i>>
                /\ x \in InBatches(r)' <=>
                     \E f \in flushes' : \E i \in IndicesOf(f.records, r) : x = <<"batch", f, i>>
                /\ x \in InVersions(r) => x[1] = "version"
<1>1. \A x : /\ x \in InQueues(r) <=>
                     \E w \in Writers : \E i \in IndicesOf(pool[w].pending, r) : x = <<"queue", w, i>>
             /\ x \in InQueues(r)' <=>
                     \E w \in Writers : \E i \in IndicesOf(pool'[w].pending, r) : x = <<"queue", w, i>>
  BY DEF InQueues
<1>2. \A x : /\ x \in InBatches(r) <=>
                     \E f \in flushes : \E i \in IndicesOf(f.records, r) : x = <<"batch", f, i>>
             /\ x \in InBatches(r)' <=>
                     \E f \in flushes' : \E i \in IndicesOf(f.records, r) : x = <<"batch", f, i>>
  BY DEF InBatches
<1>3. \A x : x \in InVersions(r) => x[1] = "version"
  BY VersionsOf
<1> QED BY <1>1, <1>2, <1>3

(* What one move of a record's places must show. *)
LEMMA MoveKeeps ==
  ASSUME NEW r, OnePlace(r), Offered(r)' <=> Offered(r),
         NEW old, NEW new, DOMAIN old = DOMAIN new, IsInjective(old),
         Range(old) \subseteq Places(r), Places(r)' = (Places(r) \ Range(old)) \cup Range(new)
  PROVE  OnePlace(r)'
<1>1. PICK P, Q : P = Places(r) /\ Q = Places(r)'
  OBVIOUS
<1>2. /\ P = {} => Q = {}
      /\ (\E p \in P : P = {p}) => \E q \in Q : Q = {q}
  BY <1>1, Moved
<1> QED BY <1>1, <1>2 DEF OnePlace

(* A queue is taken as a batch. *)
LEMMA TakingKeepsPlaces ==
  ASSUME PoolInv, NEW r, NEW w \in Writers, NEW who, NEW p, p.pending = pool[w].pending,
         pool' = [pool EXCEPT ![w] = [p EXCEPT !.pending = <<>>]],
         IsProductionProducer(p),
         flushes' = flushes \cup {Batch(w, who, p.pending)},
         UNCHANGED <<fed, published, dropped, refused>>, OnePlace(r)
  PROVE  OnePlace(r)'
<1>1. PICK S, g : S = IndicesOf(pool[w].pending, r) /\ g = Batch(w, who, p.pending)
  OBVIOUS
<1>2. PICK old, new : old = [i \in S |-> <<"queue", w, i>>] /\ new = [i \in S |-> <<"batch", g, i>>]
  OBVIOUS
<1>3. /\ DOMAIN old = DOMAIN new /\ IsInjective(old)
      /\ \A x : x \in Range(old) <=> \E i \in S : x = <<"queue", w, i>>
      /\ \A x : x \in Range(new) <=> \E i \in S : x = <<"batch", g, i>>
  BY <1>2 DEF IsInjective, Range
<1>4. /\ g.records = pool[w].pending /\ flushes' = flushes \cup {g}
      /\ \A v \in Writers : pool'[v].pending = IF v = w THEN <<>> ELSE pool[v].pending
      /\ IndicesOf(<<>>, r) = {}
  BY <1>1 DEF PoolInv, IsProductionProducer, Batch, IndicesOf
<1>5. Range(old) \subseteq InQueues(r) /\ InQueues(r)' = InQueues(r) \ Range(old)
  BY <1>1, <1>3, <1>4, PlacesOf
<1>6. InBatches(r)' = InBatches(r) \cup Range(new)
  <2>1. \A x : x \in InBatches(r)' <=> x \in InBatches(r) \/ x \in Range(new)
    BY <1>1, <1>3, <1>4, PlacesOf
  <2> QED BY <2>1
<1>7. InVersions(r)' = InVersions(r) /\ (Offered(r)' <=> Offered(r))
  BY DEF InVersions, Offered
<1>8. Places(r)' = (Places(r) \ Range(old)) \cup Range(new)
  <2>1. \A x \in Range(old) : x[1] = "queue"
    BY <1>3
  <2>2. \A x \in InBatches(r) \cup InVersions(r) : x[1] # "queue"
    BY PlacesOf
  <2>3. <<"dropped", r, 1>>[1] # "queue" /\ <<"refused", r, 1>>[1] # "queue"
    OBVIOUS
  <2> QED BY <1>5, <1>6, <1>7, <2>1, <2>2, <2>3 DEF Places
<1>9. Range(old) \subseteq Places(r)
  BY <1>5 DEF Places
<1> QED BY <1>3, <1>7, <1>8, <1>9, MoveKeeps

(* No queue changes. *)
SamePending == \A w \in Writers : pool'[w].pending = pool[w].pending

(* A record stays where it is in the queues when they do not change. *)
LEMMA QueuesStay ==
  ASSUME SamePending, NEW r
  PROVE  InQueues(r)' = InQueues(r)
<1>1. \A x : x \in InQueues(r)' <=> x \in InQueues(r)
  BY PlacesOf DEF SamePending
<1> QED BY <1>1

(* A batch goes on, with the same records. *)
LEMMA BatchKeepsPlaces ==
  ASSUME NEW f \in flushes, NEW g, g.records = f.records, SamePending,
         flushes' = (flushes \ {f}) \cup {g},
         UNCHANGED <<fed, published, dropped, refused>>, NEW r, OnePlace(r)
  PROVE  OnePlace(r)'
<1>1. PICK S : S = IndicesOf(f.records, r)
  OBVIOUS
<1>2. PICK old, new : old = [i \in S |-> <<"batch", f, i>>] /\ new = [i \in S |-> <<"batch", g, i>>]
  OBVIOUS
<1>3. /\ DOMAIN old = DOMAIN new /\ IsInjective(old)
      /\ \A x : x \in Range(old) <=> \E i \in S : x = <<"batch", f, i>>
      /\ \A x : x \in Range(new) <=> \E i \in S : x = <<"batch", g, i>>
  BY <1>2 DEF IsInjective, Range
<1>4. Range(old) \subseteq InBatches(r)
  BY <1>1, <1>3, PlacesOf
<1>5. InBatches(r)' = (InBatches(r) \ Range(old)) \cup Range(new)
  <2>1. \A x : x \in InBatches(r)' <=> (x \in InBatches(r) /\ x \notin Range(old)) \/ x \in Range(new)
    BY <1>1, <1>3, PlacesOf
  <2> QED BY <2>1
<1>6. InVersions(r)' = InVersions(r) /\ InQueues(r)' = InQueues(r) /\ (Offered(r)' <=> Offered(r))
  BY QueuesStay DEF InVersions, Offered
<1>7. Places(r)' = (Places(r) \ Range(old)) \cup Range(new)
  <2>1. \A x \in Range(old) : x[1] = "batch"
    BY <1>3
  <2>2. \A x \in InQueues(r) \cup InVersions(r) : x[1] # "batch"
    BY PlacesOf
  <2>3. <<"dropped", r, 1>>[1] # "batch" /\ <<"refused", r, 1>>[1] # "batch"
    OBVIOUS
  <2> QED BY <1>5, <1>6, <2>1, <2>2, <2>3 DEF Places
<1>8. Range(old) \subseteq Places(r)
  BY <1>4 DEF Places
<1> QED BY <1>3, <1>6, <1>7, <1>8, MoveKeeps

(* A batch is over: what becomes of its records. *)
LEMMA BatchLeaves ==
  ASSUME NEW f \in flushes, SamePending, flushes' = flushes \ {f},
         UNCHANGED <<fed, refused>>, NEW r, OnePlace(r),
         NEW S, S = IndicesOf(f.records, r),
         NEW new, DOMAIN new = S,
         InVersions(r)' \cup (IF r \in dropped' THEN {<<"dropped", r, 1>>} ELSE {})
           = InVersions(r) \cup (IF r \in dropped THEN {<<"dropped", r, 1>>} ELSE {}) \cup Range(new)
  PROVE  OnePlace(r)'
<1>1. PICK old : old = [i \in S |-> <<"batch", f, i>>]
  OBVIOUS
<1>2. /\ DOMAIN old = DOMAIN new /\ IsInjective(old)
      /\ \A x : x \in Range(old) <=> \E i \in S : x = <<"batch", f, i>>
  BY <1>1 DEF IsInjective, Range
<1>3. Range(old) \subseteq InBatches(r) /\ InBatches(r)' = InBatches(r) \ Range(old)
  <2>1. \A x : x \in InBatches(r)' <=> x \in InBatches(r) /\ x \notin Range(old)
    BY <1>2, PlacesOf
  <2>2. Range(old) \subseteq InBatches(r)
    BY <1>2, PlacesOf
  <2> QED BY <2>1, <2>2
<1>4. InQueues(r)' = InQueues(r) /\ (Offered(r)' <=> Offered(r))
  BY QueuesStay DEF Offered
<1>5. Places(r)' = (Places(r) \ Range(old)) \cup Range(new)
  <2>1. \A x \in Range(old) : x[1] = "batch"
    BY <1>2
  <2>2. \A x \in InQueues(r) \cup InVersions(r) : x[1] # "batch"
    BY PlacesOf
  <2>3. <<"dropped", r, 1>>[1] # "batch" /\ <<"refused", r, 1>>[1] # "batch"
    OBVIOUS
  <2>4. PICK d, e, q : /\ d = (IF r \in dropped THEN {<<"dropped", r, 1>>} ELSE {})
                       /\ e = (IF r \in dropped' THEN {<<"dropped", r, 1>>} ELSE {})
                       /\ q = (IF r \in refused THEN {<<"refused", r, 1>>} ELSE {})
    OBVIOUS
  <2>5. /\ Places(r) = InQueues(r) \cup InBatches(r) \cup InVersions(r) \cup d \cup q
        /\ Places(r)' = InQueues(r) \cup InBatches(r)' \cup InVersions(r)' \cup e \cup q
        /\ InVersions(r)' \cup e = InVersions(r) \cup d \cup Range(new)
        /\ \A x \in d \cup q : x[1] # "batch"
    BY <1>4, <2>3, <2>4 DEF Places
  <2> QED BY <1>3, <2>1, <2>2, <2>5
<1>6. Range(old) \subseteq Places(r)
  BY <1>3 DEF Places
<1> QED BY <1>2, <1>4, <1>5, <1>6, MoveKeeps

(* Publishing adds the places in the new batch to those of a record. *)
LEMMA VersionsGrow ==
  ASSUME NEW w \in Writers, NEW records, NEW T, published[w] \in Seq(T),
         published'[w] = Append(published[w], records),
         \A v \in Writers \ {w} : published'[v] = published[v], NEW r
  PROVE  \A x : x \in InVersions(r)' <=>
                  \/ x \in InVersions(r)
                  \/ \E i \in IndicesOf(records, r) : x = <<"version", <<w, Len(published[w]) + 1>>, i>>
<1>1. PICK S, n : S = IndicesOf(records, r) /\ n = Len(published[w]) + 1
  OBVIOUS
<1>2. /\ DOMAIN published[w] = 1..(n - 1) /\ DOMAIN published'[w] = 1..n /\ n \in Nat \ {0}
      /\ \A b \in 1..(n - 1) : published'[w][b] = published[w][b]
      /\ published'[w][n] = records
  <2>1. PICK q : q = published[w] /\ q \in Seq(T)
    OBVIOUS
  <2>2. published'[w] = Append(q, records)
    BY <2>1
  <2> QED BY <1>1, <2>1, <2>2
<1>3. ASSUME NEW v \in Writers, NEW b, ~(v = w /\ b = n)
      PROVE  /\ b \in DOMAIN published'[v] <=> b \in DOMAIN published[v]
             /\ b \in DOMAIN published[v] => published'[v][b] = published[v][b]
  <2>1. CASE v # w
    BY <2>1
  <2>2. CASE v = w
    <3>1. b # n
      BY <1>3, <2>2
    <3>2. b \in 1..n <=> b \in 1..(n - 1)
      BY <1>2, <3>1
    <3> QED BY <1>2, <2>2, <3>2
  <2> QED BY <2>1, <2>2
<1>4. ASSUME NEW x, x \in InVersions(r) PROVE x \in InVersions(r)'
  <2>1. PICK v \in Writers : \E b \in DOMAIN published[v] :
               \E i \in IndicesOf(published[v][b], r) : x = <<"version", <<v, b>>, i>>
    BY <1>4, VersionsOf
  <2>2. PICK b \in DOMAIN published[v] :
               \E i \in IndicesOf(published[v][b], r) : x = <<"version", <<v, b>>, i>>
    BY <2>1
  <2>3. ~(v = w /\ b = n)
    BY <1>2
  <2>4. b \in DOMAIN published'[v] /\ published'[v][b] = published[v][b]
    BY <1>3, <2>3
  <2> QED BY <2>2, <2>4, VersionsOf
<1>5. ASSUME NEW i \in S PROVE <<"version", <<w, n>>, i>> \in InVersions(r)'
  <2>1. n \in DOMAIN published'[w] /\ S = IndicesOf(published'[w][n], r)
    BY <1>1, <1>2
  <2> QED BY <2>1, VersionsOf
<1>6. ASSUME NEW x, x \in InVersions(r)', x \notin InVersions(r)
      PROVE  \E i \in S : x = <<"version", <<w, n>>, i>>
  <2>1. PICK v \in Writers : \E b \in DOMAIN published'[v] :
               \E i \in IndicesOf(published'[v][b], r) : x = <<"version", <<v, b>>, i>>
    BY <1>6, VersionsOf
  <2>2. PICK b \in DOMAIN published'[v] :
               \E i \in IndicesOf(published'[v][b], r) : x = <<"version", <<v, b>>, i>>
    BY <2>1
  <2>3. v = w /\ b = n
    BY <1>3, <1>6, <2>2, VersionsOf
  <2> QED BY <1>1, <1>2, <2>2, <2>3
<1> QED BY <1>1, <1>4, <1>5, <1>6

(* A batch that is published: its records go from the goroutine to a version. *)
LEMMA PublishingKeepsPlaces ==
  ASSUME NEW f \in flushes, SamePending, flushes' = flushes \ {f},
         NEW w \in Writers, NEW T, published[w] \in Seq(T),
         published'[w] = Append(published[w], f.records),
         \A v \in Writers \ {w} : published'[v] = published[v],
         UNCHANGED <<fed, dropped, refused>>, NEW r, OnePlace(r)
  PROVE  OnePlace(r)'
<1>1. PICK S, n : S = IndicesOf(f.records, r) /\ n = Len(published[w]) + 1
  OBVIOUS
<1>2. PICK new : new = [i \in S |-> <<"version", <<w, n>>, i>>]
  OBVIOUS
<1>3. /\ DOMAIN new = S
      /\ \A x : x \in Range(new) <=> \E i \in S : x = <<"version", <<w, n>>, i>>
  BY <1>2 DEF Range
<1>4. \A x : x \in InVersions(r)' <=> x \in InVersions(r) \/ x \in Range(new)
  <2>1. \A x : x \in InVersions(r)' <=>
                 \/ x \in InVersions(r)
                 \/ \E i \in IndicesOf(f.records, r) :
                      x = <<"version", <<w, Len(published[w]) + 1>>, i>>
    BY VersionsGrow
  <2> QED BY <1>1, <1>3, <2>1
<1> QED BY <1>1, <1>3, <1>4, BatchLeaves

(* A batch that is given up after its last error. *)
LEMMA GivingUpKeepsPlaces ==
  ASSUME NEW f \in flushes, SamePending, flushes' = flushes \ {f},
         dropped' = dropped \cup ToSet(f.records),
         UNCHANGED <<fed, published, refused>>, NEW r, OnePlace(r)
  PROVE  OnePlace(r)'
<1>1. PICK S : S = IndicesOf(f.records, r)
  OBVIOUS
<1>2. PICK new : new = [i \in S |-> <<"dropped", r, 1>>]
  OBVIOUS
<1>3. /\ DOMAIN new = S
      /\ \A x : x \in Range(new) <=> S # {} /\ x = <<"dropped", r, 1>>
  BY <1>2 DEF Range
<1>4. r \in dropped' <=> r \in dropped \/ S # {}
  BY <1>1 DEF ToSet, IndicesOf
<1>5. InVersions(r)' = InVersions(r)
  BY DEF InVersions
<1> QED BY <1>1, <1>3, <1>4, <1>5, BatchLeaves

(* Where a record is in two sequences put together. *)
LEMMA IndicesOfBoth ==
  ASSUME NEW T, NEW s \in Seq(T), NEW t \in Seq(T), NEW r
  PROVE  \A i : i \in IndicesOf(s \o t, r) <=>
                  \/ i \in IndicesOf(s, r)
                  \/ \E j \in IndicesOf(t, r) : i = Len(s) + j
<1>1. PICK both : both = s \o t
  OBVIOUS
<1>2. /\ DOMAIN both = 1..(Len(s) + Len(t)) /\ Len(s) \in Nat /\ Len(t) \in Nat
      /\ DOMAIN s = 1..Len(s) /\ DOMAIN t = 1..Len(t)
      /\ \A i \in 1..Len(s) : both[i] = s[i]
      /\ \A j \in 1..Len(t) : both[Len(s) + j] = t[j]
  BY <1>1
<1>3. ASSUME NEW i, i \in IndicesOf(both, r), i \notin IndicesOf(s, r)
      PROVE  \E j \in IndicesOf(t, r) : i = Len(s) + j
  <2>1. i \in 1..(Len(s) + Len(t)) /\ both[i] = r
    BY <1>2, <1>3 DEF IndicesOf
  <2>2. i > Len(s)
    BY <1>2, <1>3, <2>1 DEF IndicesOf
  <2>3. i - Len(s) \in 1..Len(t) /\ i = Len(s) + (i - Len(s))
    BY <1>2, <2>1, <2>2
  <2>4. i - Len(s) \in IndicesOf(t, r)
    BY <1>2, <2>1, <2>3 DEF IndicesOf
  <2> QED BY <2>3, <2>4
<1>4. ASSUME NEW i, i \in IndicesOf(s, r) PROVE i \in IndicesOf(both, r)
  BY <1>2, <1>4 DEF IndicesOf
<1>5. ASSUME NEW j \in IndicesOf(t, r) PROVE Len(s) + j \in IndicesOf(both, r)
  <2>1. j \in 1..Len(t) /\ t[j] = r
    BY <1>2 DEF IndicesOf
  <2>2. Len(s) + j \in 1..(Len(s) + Len(t)) /\ both[Len(s) + j] = r
    BY <1>2, <2>1
  <2> QED BY <1>2, <2>2 DEF IndicesOf
<1> QED BY <1>1, <1>3, <1>4, <1>5

(* What is distributed is queued or refused. *)
LEMMA DistributedPlaces ==
  ASSUME PoolInv, NEW chunks, \A w \in Writers : chunks[w] \in Seq(Range(Feed)),
         Distribute(chunks), NEW r
  PROVE  \E taken :
           \A x : x \in Places(r)' <=>
                  \/ x \in Places(r)
                  \/ \E w \in Writers, j \in Nat :
                       /\ j \in IndicesOf(chunks[w], r)
                       /\ x = IF w \in taken THEN <<"queue", w, Len(pool[w].pending) + j>>
                              ELSE <<"refused", r, 1>>
<1>1. PICK taken : /\ taken = {w \in Writers : chunks[w] # <<>> /\ ~UnderPressure(w)}
                   /\ pool' = [w \in Writers |-> IF w \in taken THEN Queue(pool[w], chunks[w])
                                                 ELSE pool[w]]
                   /\ refused' = refused \cup UNION {ToSet(chunks[w]) : w \in Writers \ taken}
                   /\ UNCHANGED <<flushes, published, dropped>>
  BY DEF Distribute
<1>2. \A w \in Writers : IndicesOf(chunks[w], r) \subseteq Nat
  BY DEF IndicesOf
<1>3. ASSUME NEW w \in Writers
      PROVE  \A i : i \in IndicesOf(pool'[w].pending, r) <=>
                      \/ i \in IndicesOf(pool[w].pending, r)
                      \/ w \in taken /\ \E j \in IndicesOf(chunks[w], r) : i = Len(pool[w].pending) + j
  <2>1. CASE w \in taken
    <3>1. IsProductionProducer(pool[w]) /\ pool'[w] = Queue(pool[w], chunks[w])
      BY <1>1, <2>1 DEF PoolInv, QueueInv
    <3>2. PICK p, s : p = pool[w] /\ s = chunks[w] /\ s \in Seq(Range(Feed))
      OBVIOUS
    <3>3. Queue(p, s).pending = p.pending \o s /\ p.pending \in Seq(Range(Feed))
      BY <3>1, <3>2 DEF Queue, IsProductionProducer
    <3> QED BY <2>1, <3>1, <3>2, <3>3, IndicesOfBoth
  <2>2. CASE w \notin taken
    BY <1>1, <2>2
  <2> QED BY <2>1, <2>2
<1>4. \A x : x \in InQueues(r)' <=>
               \/ x \in InQueues(r)
               \/ \E w \in taken : \E j \in IndicesOf(chunks[w], r) :
                    x = <<"queue", w, Len(pool[w].pending) + j>>
  <2>1. \A x : /\ x \in InQueues(r) <=>
                     \E w \in Writers : \E i \in IndicesOf(pool[w].pending, r) : x = <<"queue", w, i>>
               /\ x \in InQueues(r)' <=>
                     \E w \in Writers : \E i \in IndicesOf(pool'[w].pending, r) : x = <<"queue", w, i>>
    BY PlacesOf
  <2>2. taken \subseteq Writers
    BY <1>1
  <2>3. ASSUME NEW x, x \in InQueues(r)', x \notin InQueues(r)
        PROVE  \E w \in taken : \E j \in IndicesOf(chunks[w], r) :
                 x = <<"queue", w, Len(pool[w].pending) + j>>
    <3>1. PICK w \in Writers : \E i \in IndicesOf(pool'[w].pending, r) : x = <<"queue", w, i>>
      BY <2>1, <2>3
    <3>2. PICK i \in IndicesOf(pool'[w].pending, r) : x = <<"queue", w, i>>
      BY <3>1
    <3> QED BY <1>3, <2>1, <2>3, <3>2
  <2>4. ASSUME NEW x, x \in InQueues(r) PROVE x \in InQueues(r)'
    BY <1>3, <2>1, <2>4
  <2>5. ASSUME NEW w \in taken, NEW j \in IndicesOf(chunks[w], r)
        PROVE  <<"queue", w, Len(pool[w].pending) + j>> \in InQueues(r)'
    BY <1>3, <2>1, <2>2
  <2> QED BY <2>3, <2>4, <2>5
<1>5. r \in refused' <=> r \in refused \/ \E w \in Writers \ taken : IndicesOf(chunks[w], r) # {}
  BY <1>1 DEF ToSet, IndicesOf
<1>6. InVersions(r)' = InVersions(r) /\ InBatches(r)' = InBatches(r)
  BY <1>1 DEF InVersions, InBatches
<1>7. \A x : x \in Places(r)' <=>
                  \/ x \in Places(r)
                  \/ \E w \in Writers, j \in Nat :
                       /\ j \in IndicesOf(chunks[w], r)
                       /\ x = IF w \in taken THEN <<"queue", w, Len(pool[w].pending) + j>>
                              ELSE <<"refused", r, 1>>
  <2>1. taken \subseteq Writers /\ dropped' = dropped
    BY <1>1
  <2> HIDE DEF Distribute
  <2> QED BY <1>2, <1>4, <1>5, <1>6, <2>1 DEF Places
<1> QED BY <1>7

(* A record in the chunks was not offered before, and is in one of them    *)
(* once.                                                                   *)
Distributes(chunks) ==
  \A r \in Range(Feed) :
    \/ /\ Offered(r)' <=> Offered(r)
       /\ \A w \in Writers : IndicesOf(chunks[w], r) = {}
    \/ /\ ~Offered(r) /\ Offered(r)'
       /\ \E w \in Writers, j \in Nat :
            /\ IndicesOf(chunks[w], r) = {j}
            /\ \A v \in Writers \ {w} : IndicesOf(chunks[v], r) = {}

(* Records that are distributed had no place, and have one now. *)
LEMMA DistributingKeepsPlaces ==
  ASSUME PoolInv, NEW chunks, \A w \in Writers : chunks[w] \in Seq(Range(Feed)),
         Distribute(chunks), Distributes(chunks), NEW r \in Range(Feed), OnePlace(r)
  PROVE  OnePlace(r)'
<1> DEFINE place(taken, w, j) == IF w \in taken THEN <<"queue", w, Len(pool[w].pending) + j>>
                                 ELSE <<"refused", r, 1>>
<1>0. PICK taken :
        \A x : x \in Places(r)' <=>
                 \/ x \in Places(r)
                 \/ \E w \in Writers, j \in Nat :
                      /\ j \in IndicesOf(chunks[w], r)
                      /\ x = place(taken, w, j)
  BY DistributedPlaces
<1> HIDE DEF place
<1>1. PICK P, Q :
        /\ P = Places(r) /\ Q = Places(r)'
        /\ \A x : x \in Q <=> \/ x \in P
                              \/ \E w \in Writers, j \in Nat :
                                   /\ j \in IndicesOf(chunks[w], r)
                                   /\ x = place(taken, w, j)
  BY <1>0
<1> HIDE DEF Distribute
<1>2. CASE /\ Offered(r)' <=> Offered(r)
           /\ \A w \in Writers : IndicesOf(chunks[w], r) = {}
  <2>1. \A x : x \in P <=> x \in Q
    BY <1>1, <1>2
  <2>2. P = Q
    BY <2>1
  <2> QED BY <1>1, <1>2, <2>2 DEF OnePlace
<1>3. CASE /\ ~Offered(r) /\ Offered(r)'
           /\ \E w \in Writers, j \in Nat :
                /\ IndicesOf(chunks[w], r) = {j}
                /\ \A v \in Writers \ {w} : IndicesOf(chunks[v], r) = {}
  <2>1. PICK w \in Writers, j \in Nat :
          /\ IndicesOf(chunks[w], r) = {j}
          /\ \A v \in Writers \ {w} : IndicesOf(chunks[v], r) = {}
    BY <1>3
  <2>2. PICK q : q = place(taken, w, j)
    OBVIOUS
  <2>3. P = {}
    BY <1>1, <1>3 DEF OnePlace
  <2>4. \A x : x \in Q <=> x = q
    <3>1. \A v \in Writers, i \in Nat : i \in IndicesOf(chunks[v], r) <=> v = w /\ i = j
      <4>1. \A v \in Writers : v # w => IndicesOf(chunks[v], r) = {}
        BY <2>1
      <4>2. \A i : i \in IndicesOf(chunks[w], r) <=> i = j
        BY <2>1
      <4> QED BY <4>1, <4>2
    <3> QED BY <1>1, <2>2, <2>3, <3>1
  <2>5. Q = {q} /\ q \in Q
    BY <2>4
  <2> QED BY <1>1, <1>3, <2>5 DEF OnePlace
<1> QED BY <1>2, <1>3 DEF Distributes

(* The arithmetic of the chunks: more chunks hold more records. *)
LEMMA ProductGrows ==
  ASSUME NEW a \in Nat, NEW b \in Nat, a <= b, NEW c \in Nat
  PROVE  a * c \in Nat /\ b * c \in Nat /\ a * c <= b * c
<1>1. PICK d \in Nat : b = a + d
  <2>1. b - a \in Nat /\ b = a + (b - a)
    OBVIOUS
  <2> QED BY <2>1
<1>2. b * c = a * c + d * c
  BY <1>1
<1>3. d * c >= 0 /\ d * c \in Nat /\ a * c \in Nat
  BY <1>1
<1> QED BY <1>2, <1>3

(* A share rounded up is enough for all. *)
LEMMA ShareFits ==
  ASSUME NEW n \in Nat \ {0}, NEW length \in Nat
  PROVE  length \div n \in Nat /\ n * (length \div n) <= length
OBVIOUS

(* AddRecords cuts what it is given: every place of it is in the chunk of  *)
(* one producer.                                                           *)
LEMMA ChunksCut ==
  ASSUME NEW T, NEW records \in Seq(T)
  PROVE  \E first, last \in [Writers -> Nat] :
           /\ \A w \in Writers :
                /\ Chunks(records)[w] = SubSeq(records, first[w] + 1, last[w])
                /\ last[w] <= Len(records)
           /\ \A m \in 1..Len(records) :
                \E w \in Writers :
                  /\ first[w] < m /\ m <= last[w]
                  /\ \A v \in Writers \ {w} : ~(first[v] < m /\ m <= last[v])
<1>1. PICK n, length, size : /\ n = Cardinality(Writers) /\ length = Len(records)
                             /\ size = IF length < n THEN 1 ELSE length \div n
  OBVIOUS
<1>2. n \in Nat \ {0} /\ length \in Nat /\ Writers = 1..n /\ Writers \subseteq Nat
  BY <1>1, FS_CardinalityType, SharedStoreAssumption, PoolAssumption
<1>3. size \in Nat \ {0} /\ (n <= length => n * size <= length)
  <2>1. CASE length < n
    BY <1>1, <1>2, <2>1
  <2>2. CASE length >= n
    <3>1. size = length \div n /\ size \in Nat /\ n * size <= length
      BY <1>1, <1>2, <2>2, ShareFits
    <3>2. size # 0
      BY <1>1, <1>2, <2>2
    <3> QED BY <3>1, <3>2
  <2> QED BY <1>2, <2>1, <2>2
<1>4. PICK first, last :
        /\ first = [w \in Writers |-> (w - 1) * size]
        /\ last = [w \in Writers |-> IF w = n THEN length
                                     ELSE IF w * size <= length THEN w * size ELSE length]
  OBVIOUS
<1>5. \A w \in Writers : w - 1 \in Nat /\ (w - 1) * size \in Nat /\ w * size \in Nat
  BY <1>2, <1>3, ProductGrows
<1>6. first \in [Writers -> Nat] /\ last \in [Writers -> Nat]
  BY <1>2, <1>4, <1>5
<1>7. ASSUME NEW w \in Writers
      PROVE  /\ Chunks(records)[w] = SubSeq(records, first[w] + 1, last[w])
             /\ last[w] <= Len(records)
  <2>1. \A a, b \in Nat : Min({a, b}) = IF a <= b THEN a ELSE b
    <3> SUFFICES ASSUME NEW a \in Nat, NEW b \in Nat
                 PROVE  Min({a, b}) = IF a <= b THEN a ELSE b
      OBVIOUS
    <3>1. PICK x : x = IF a <= b THEN a ELSE b
      OBVIOUS
    <3>2. \A y : y \in {a, b} /\ (\A z \in {a, b} : y <= z) <=> y = x
      BY <3>1
    <3> QED BY <3>1, <3>2 DEF Min
  <2>2. Chunks(records)[w] =
          SubSeq(records, (w - 1) * size + 1,
                 IF w = n THEN length ELSE Min({w * size, length}))
    BY <1>1 DEF Chunks
  <2>3. (IF w = n THEN length ELSE Min({w * size, length})) = last[w]
    BY <1>2, <1>4, <1>5, <2>1
  <2>4. first[w] = (w - 1) * size /\ last[w] <= length
    BY <1>2, <1>4, <1>5
  <2> QED BY <1>1, <2>2, <2>3, <2>4
<1>8. ASSUME NEW m \in 1..length
      PROVE  \E w \in Writers :
                  /\ first[w] < m /\ m <= last[w]
                  /\ \A v \in Writers \ {w} : ~(first[v] < m /\ m <= last[v])
  <2>1. PICK S : S = {w \in Writers : (w - 1) * size < m}
    OBVIOUS
  <2>2. 1 \in S /\ S \subseteq 0..n
    <3>1. (1 - 1) * size = 0
      BY <1>3
    <3> QED BY <1>2, <2>1, <3>1
  <2>3. PICK w \in S : \A v \in S : v <= w
    BY <1>2, <2>2, LastExists
  <2>4. w \in Writers /\ first[w] < m
    BY <1>4, <2>1, <2>3
  <2>5. m <= last[w]
    <3>1. CASE w = n
      BY <1>4, <2>4, <3>1
    <3>2. CASE w # n
      <4>1. w + 1 \in Writers /\ w + 1 \notin S
        BY <1>2, <2>2, <2>3, <2>4, <3>2
      <4>2. m <= w * size
        <5>1. (w + 1) - 1 = w
          BY <1>2, <2>4
        <5>2. ~(w * size < m)
          BY <2>1, <4>1, <5>1
        <5> QED BY <1>5, <2>4, <5>2
      <4> QED BY <1>2, <1>4, <1>5, <2>4, <3>2, <4>2
    <3> QED BY <3>1, <3>2
  <2>6. ASSUME NEW v \in Writers, NEW u \in Writers, v < u, first[u] < m PROVE ~(m <= last[v])
    <3>1. v # n /\ v <= u - 1 /\ v \in Nat /\ u - 1 \in Nat
      BY <1>2, <2>6
    <3>2. last[v] <= v * size
      BY <1>2, <1>4, <1>5, <3>1
    <3>3. v * size <= (u - 1) * size
      BY <1>3, <3>1, ProductGrows
    <3>4. first[u] = (u - 1) * size
      BY <1>4
    <3> QED BY <1>5, <1>6, <2>6, <3>2, <3>3, <3>4
  <2>7. ASSUME NEW v \in Writers \ {w} PROVE ~(first[v] < m /\ m <= last[v])
    <3>1. v < w \/ w < v
      BY <1>2, <2>4
    <3> QED BY <2>4, <2>5, <2>6, <3>1
  <2> QED BY <2>4, <2>5, <2>7
<1> QED BY <1>1, <1>6, <1>7, <1>8

(* What a piece of the records holds. *)
LEMMA PieceHolds ==
  ASSUME NEW T, NEW s \in Seq(T), NEW a \in Nat, NEW b \in Nat, b <= Len(s), NEW r
  PROVE  \A j : j \in IndicesOf(SubSeq(s, a + 1, b), r) <=>
                  j \in Nat \ {0} /\ a + j <= b /\ s[a + j] = r
<1>1. PICK t : t = SubSeq(s, a + 1, b)
  OBVIOUS
<1>2. /\ DOMAIN t = IF a + 1 <= b THEN 1..(b - a) ELSE {}
      /\ \A j \in DOMAIN t : t[j] = s[a + j]
  <2>1. Len(s) \in Nat
    OBVIOUS
  <2> QED BY <1>1, <2>1
<1>3. \A j : j \in DOMAIN t <=> j \in Nat \ {0} /\ a + j <= b
  BY <1>2
<1> QED BY <1>1, <1>2, <1>3 DEF IndicesOf

(* Every record of a call is in one chunk, once. *)
LEMMA ChunksShare ==
  ASSUME NEW T, NEW records \in Seq(T), NEW r
  PROVE  /\ \A w \in Writers : Chunks(records)[w] \in Seq(T)
         /\ r \notin Range(records) => \A w \in Writers : IndicesOf(Chunks(records)[w], r) = {}
         /\ \A m \in 1..Len(records) :
              records[m] = r /\ (\A i \in 1..Len(records) : records[i] = r => i = m) =>
                \E w \in Writers, j \in Nat :
                  /\ IndicesOf(Chunks(records)[w], r) = {j}
                  /\ \A v \in Writers \ {w} : IndicesOf(Chunks(records)[v], r) = {}
<1>1. PICK first, last \in [Writers -> Nat] :
           /\ \A w \in Writers :
                /\ Chunks(records)[w] = SubSeq(records, first[w] + 1, last[w])
                /\ last[w] <= Len(records)
           /\ \A m \in 1..Len(records) :
                \E w \in Writers :
                  /\ first[w] < m /\ m <= last[w]
                  /\ \A v \in Writers \ {w} : ~(first[v] < m /\ m <= last[v])
  BY ChunksCut
<1>2. ASSUME NEW w \in Writers
      PROVE  /\ Chunks(records)[w] \in Seq(T)
             /\ \A j : j \in IndicesOf(Chunks(records)[w], r) <=>
                         j \in Nat \ {0} /\ first[w] + j <= last[w] /\ records[first[w] + j] = r
  <2>1. PICK a \in Nat, b \in Nat : a = first[w] /\ b = last[w]
    OBVIOUS
  <2>2. Chunks(records)[w] = SubSeq(records, a + 1, b) /\ b <= Len(records)
    BY <1>1, <2>1
  <2>3. SubSeq(records, a + 1, b) \in Seq(T)
    BY <2>2
  <2>4. \A j : j \in IndicesOf(SubSeq(records, a + 1, b), r) <=>
                 j \in Nat \ {0} /\ a + j <= b /\ records[a + j] = r
    BY <2>2, PieceHolds
  <2> QED BY <2>1, <2>2, <2>3, <2>4
<1>3. Len(records) \in Nat /\ DOMAIN records = 1..Len(records)
  OBVIOUS
<1>4. ASSUME NEW w \in Writers, NEW j \in IndicesOf(Chunks(records)[w], r)
      PROVE  /\ j \in Nat /\ first[w] \in Nat /\ first[w] < first[w] + j /\ first[w] + j <= last[w]
             /\ first[w] + j \in 1..Len(records) /\ records[first[w] + j] = r
  <2>1. first[w] \in Nat /\ last[w] \in Nat /\ last[w] <= Len(records)
    BY <1>1
  <2> QED BY <1>2, <1>3, <2>1
<1>5. ASSUME r \notin Range(records), NEW w \in Writers PROVE IndicesOf(Chunks(records)[w], r) = {}
  BY <1>3, <1>4, <1>5 DEF Range
<1>6. ASSUME NEW m \in 1..Len(records), records[m] = r,
             \A i \in 1..Len(records) : records[i] = r => i = m
      PROVE  \E w \in Writers, j \in Nat :
                  /\ IndicesOf(Chunks(records)[w], r) = {j}
                  /\ \A v \in Writers \ {w} : IndicesOf(Chunks(records)[v], r) = {}
  <2>1. PICK w \in Writers : /\ first[w] < m /\ m <= last[w]
                             /\ \A v \in Writers \ {w} : ~(first[v] < m /\ m <= last[v])
    BY <1>1
  <2>2. PICK j : j = m - first[w]
    OBVIOUS
  <2>3. j \in Nat \ {0} /\ first[w] + j = m /\ first[w] \in Nat
    BY <1>1, <1>3, <2>1, <2>2
  <2>4. ASSUME NEW i \in IndicesOf(Chunks(records)[w], r) PROVE i = j
    <3>1. i \in Nat /\ first[w] + i = m
      BY <1>4, <1>6
    <3> QED BY <2>3, <3>1
  <2>5. j \in IndicesOf(Chunks(records)[w], r)
    BY <1>2, <1>6, <2>1, <2>3
  <2>6. ASSUME NEW v \in Writers \ {w}, NEW i \in IndicesOf(Chunks(records)[v], r) PROVE FALSE
    <3>1. first[v] + i = m /\ first[v] < first[v] + i /\ first[v] + i <= last[v]
      BY <1>4, <1>6
    <3> QED BY <2>1, <3>1
  <2>7. IndicesOf(Chunks(records)[w], r) = {j}
    BY <2>4, <2>5
  <2>8. \A v \in Writers \ {w} : IndicesOf(Chunks(records)[v], r) = {}
    BY <2>6
  <2> QED BY <2>3, <2>7, <2>8
<1> QED BY <1>2, <1>5, <1>6

(* AddRecord and AddRecords hand out what they take from the feed.         *)
LEMMA AddingDistributes ==
  ASSUME PoolInv, fed <= Len(Feed), roundRobin \in Nat,
         AddRecord \/ \E count \in 2..Len(Feed) : AddRecords(count)
  PROVE  /\ fed' \in Nat /\ fed' <= Len(Feed) /\ roundRobin' \in Nat
         /\ \E chunks : /\ \A w \in Writers : chunks[w] \in Seq(Range(Feed))
                        /\ Distribute(chunks) /\ Distributes(chunks)
<1>1. /\ Feed \in Seq(Range(Feed)) /\ IsInjective(Feed) /\ Len(Feed) \in Nat /\ fed \in Nat
      /\ DOMAIN Feed = 1..Len(Feed)
  BY PoolAssumption DEF PoolInv
<1>2. \A r \in Range(Feed) : \E k \in 1..Len(Feed) : r = Feed[k]
  BY <1>1 DEF Range
<1>3. ASSUME NEW k \in 1..Len(Feed)
      PROVE  /\ Offered(Feed[k]) <=> k <= fed
             /\ fed' \in Nat /\ fed' <= Len(Feed) => (Offered(Feed[k])' <=> k <= fed')
  BY <1>1 DEF Offered, IsInjective
<1>4. CASE AddRecord
  <2>1. fed + 1 \in 1..Len(Feed) /\ fed' = fed + 1 /\ roundRobin' = roundRobin + 1
    BY <1>1, <1>4 DEF AddRecord
  <2>2. PICK record, given : /\ record = <<Feed[fed + 1]>>
                             /\ given = (roundRobin' % Cardinality(Writers)) + 1
    OBVIOUS
  <2>3. given \in Writers
    <3>1. Cardinality(Writers) \in Nat \ {0} /\ roundRobin' \in Nat
      BY <2>1, FS_CardinalityType, FS_EmptySet, SharedStoreAssumption, PoolAssumption
    <3>2. roundRobin' % Cardinality(Writers) \in 0..(Cardinality(Writers) - 1)
      BY <3>1
    <3> QED BY <2>2, <3>1, <3>2, SharedStoreAssumption
  <2>4. PICK chunks : chunks = [w \in Writers |-> IF w = given THEN record ELSE <<>>]
    OBVIOUS
  <2>5. Distribute(chunks)
    BY <1>4, <2>2, <2>4, Zenon DEF AddRecord
  <2>6. \A w \in Writers : chunks[w] \in Seq(Range(Feed))
    <3>1. Feed[fed + 1] \in Range(Feed)
      BY <1>1, <2>1 DEF Range
    <3>2. record \in Seq(Range(Feed)) /\ <<>> \in Seq(Range(Feed))
      BY <2>2, <3>1
    <3> QED BY <2>4, <3>2
  <2>7. ASSUME NEW r \in Range(Feed)
        PROVE  \/ /\ Offered(r)' <=> Offered(r)
                  /\ \A w \in Writers : IndicesOf(chunks[w], r) = {}
               \/ /\ ~Offered(r) /\ Offered(r)'
                  /\ \E w \in Writers, j \in Nat :
                       /\ IndicesOf(chunks[w], r) = {j}
                       /\ \A v \in Writers \ {w} : IndicesOf(chunks[v], r) = {}
    <3>1. PICK k \in 1..Len(Feed) : r = Feed[k]
      BY <1>2
    <3>2. (Offered(r) <=> k <= fed) /\ (Offered(r)' <=> k <= fed + 1)
      BY <1>1, <1>3, <2>1, <3>1
    <3>3. IndicesOf(<<>>, r) = {} /\ IndicesOf(record, r) = IF record[1] = r THEN {1} ELSE {}
      BY <2>2 DEF IndicesOf
    <3>4. CASE k = fed + 1
      BY <1>1, <2>2, <2>3, <2>4, <3>1, <3>2, <3>3, <3>4
    <3>5. CASE k # fed + 1
      <4>1. record[1] # r
        BY <1>1, <2>1, <2>2, <3>1, <3>5 DEF IsInjective
      <4> QED BY <1>1, <2>4, <3>2, <3>3, <3>5, <4>1
    <3> QED BY <3>4, <3>5
  <2>8. Distributes(chunks)
    BY <2>7 DEF Distributes
  <2> QED BY <1>1, <2>1, <2>5, <2>6, <2>8
<1>5. ASSUME NEW count \in 2..Len(Feed), AddRecords(count)
      PROVE  /\ fed' \in Nat /\ fed' <= Len(Feed) /\ roundRobin' \in Nat
             /\ \E chunks : /\ \A w \in Writers : chunks[w] \in Seq(Range(Feed))
                            /\ Distribute(chunks) /\ Distributes(chunks)
  <2>1. PICK records, chunks : /\ records = SubSeq(Feed, fed + 1, fed + count)
                               /\ chunks = Chunks(records)
    OBVIOUS
  <2>2. /\ fed' = fed + count /\ fed + count <= Len(Feed) /\ roundRobin' = roundRobin
        /\ Distribute(chunks)
    BY <1>5, <2>1 DEF AddRecords
  <2>3. /\ records \in Seq(Range(Feed)) /\ Len(records) = count
        /\ \A m \in 1..count : records[m] = Feed[fed + m]
    BY <1>1, <2>1, <2>2
  <2>4. ASSUME NEW r \in Range(Feed)
        PROVE  \/ /\ Offered(r)' <=> Offered(r)
                  /\ \A w \in Writers : IndicesOf(chunks[w], r) = {}
               \/ /\ ~Offered(r) /\ Offered(r)'
                  /\ \E w \in Writers, j \in Nat :
                       /\ IndicesOf(chunks[w], r) = {j}
                       /\ \A v \in Writers \ {w} : IndicesOf(chunks[v], r) = {}
    <3>1. PICK k \in 1..Len(Feed) : r = Feed[k]
      BY <1>2
    <3>2. (Offered(r) <=> k <= fed) /\ (Offered(r)' <=> k <= fed + count)
      BY <1>1, <1>3, <2>2, <3>1
    <3>3. \A m \in 1..count : fed + m \in 1..Len(Feed) /\ (records[m] = r <=> fed + m = k)
      <4>1. \A m \in 1..count : fed + m \in 1..Len(Feed) /\ records[m] = Feed[fed + m]
        BY <1>1, <2>2, <2>3
      <4>2. \A i \in 1..Len(Feed) : Feed[i] = Feed[k] => i = k
        BY <1>1, <3>1 DEF IsInjective
      <4> QED BY <3>1, <4>1, <4>2
    <3>4. CASE k > fed /\ k <= fed + count
      <4>1. PICK m \in 1..count : fed + m = k
        <5>1. k - fed \in 1..count /\ fed + (k - fed) = k
          BY <1>1, <3>4
        <5> QED BY <5>1
      <4>2. records[m] = r /\ \A i \in 1..count : records[i] = r => i = m
        BY <1>1, <3>3, <4>1
      <4>3. \E w \in Writers, j \in Nat :
              /\ IndicesOf(chunks[w], r) = {j}
              /\ \A v \in Writers \ {w} : IndicesOf(chunks[v], r) = {}
        <5>1. /\ records[m] = r /\ (\A i \in 1..Len(records) : records[i] = r => i = m)
              /\ m \in 1..Len(records)
          BY <2>3, <4>2
        <5>2. \A i \in 1..Len(records) :
                records[i] = r /\ (\A h \in 1..Len(records) : records[h] = r => h = i) =>
                  \E w \in Writers, j \in Nat :
                    /\ IndicesOf(Chunks(records)[w], r) = {j}
                    /\ \A v \in Writers \ {w} : IndicesOf(Chunks(records)[v], r) = {}
          BY <2>3, ChunksShare
        <5>3. \E w \in Writers, j \in Nat :
                /\ IndicesOf(Chunks(records)[w], r) = {j}
                /\ \A v \in Writers \ {w} : IndicesOf(Chunks(records)[v], r) = {}
          BY <5>1, <5>2
        <5> QED BY <2>1, <5>3
      <4>4. ~Offered(r) /\ Offered(r)'
        BY <1>1, <3>2, <3>4
      <4> QED BY <4>3, <4>4
    <3>5. CASE ~(k > fed /\ k <= fed + count)
      <4>1. \A m \in 1..count : records[m] # r
        BY <1>1, <3>3, <3>5
      <4>2. r \notin Range(records)
        BY <2>3, <4>1 DEF Range
      <4>3. Offered(r)' <=> Offered(r)
        BY <1>1, <3>2, <3>5
      <4> QED BY <2>1, <2>3, <4>2, <4>3, ChunksShare
    <3> QED BY <3>4, <3>5
  <2>5. Distributes(chunks)
    BY <2>4 DEF Distributes
  <2>6. \A w \in Writers : chunks[w] \in Seq(Range(Feed))
    BY <2>1, <2>3, ChunksShare
  <2> QED BY <1>1, <2>2, <2>5, <2>6
<1> QED BY <1>4, <1>5

(* A batch more has its length in records more. *)
LEMMA RecordsGrow ==
  ASSUME NEW T, NEW s \in Seq(Seq(T)), NEW t \in Seq(T), IsFiniteSet(RecordsIn(s))
  PROVE  /\ IsFiniteSet(RecordsIn(Append(s, t)))
         /\ Cardinality(RecordsIn(Append(s, t))) = Cardinality(RecordsIn(s)) + Len(t)
<1>1. PICK n, m, u : n = Len(s) + 1 /\ m = Len(t) /\ u = Append(s, t)
  OBVIOUS
<1>2. /\ n \in Nat /\ m \in Nat /\ DOMAIN s = 1..(n - 1) /\ DOMAIN u = 1..n /\ DOMAIN t = 1..m
      /\ \A b \in 1..(n - 1) : u[b] = s[b]
      /\ u[n] = t /\ n \notin 1..(n - 1) /\ n \in 1..n
      /\ \A b \in 1..n : b # n => b \in 1..(n - 1)
      /\ \A b \in 1..(n - 1) : b \in 1..n
  BY <1>1
<1>3. PICK new : new = {<<n, i>> : i \in 1..m}
  OBVIOUS
<1>4. RecordsIn(u) = RecordsIn(s) \cup new
  <2>1. \A x : x \in RecordsIn(u) <=> \E b \in 1..n : \E i \in DOMAIN u[b] : x = <<b, i>>
    BY <1>2 DEF RecordsIn
  <2>2. \A x : x \in RecordsIn(s) <=> \E b \in 1..(n - 1) : \E i \in DOMAIN s[b] : x = <<b, i>>
    BY <1>2 DEF RecordsIn
  <2>3. \A x : x \in new <=> \E i \in DOMAIN u[n] : x = <<n, i>>
    BY <1>2, <1>3
  <2>4. \A x : x \in RecordsIn(u) <=> x \in RecordsIn(s) \/ x \in new
    BY <1>2, <2>1, <2>2, <2>3
  <2> QED BY <2>4
<1>5. RecordsIn(s) \cap new = {}
  <2>1. \A x \in new : x[1] = n
    BY <1>3
  <2>2. \A x \in RecordsIn(s) : x[1] # n
    BY <1>2 DEF RecordsIn
  <2> QED BY <2>1, <2>2
<1>6. IsFiniteSet(new) /\ Cardinality(new) = m
  <2>1. PICK pair : pair = [i \in 1..m |-> <<n, i>>]
    OBVIOUS
  <2>2. pair \in Bijection(1..m, new)
    BY <1>3, <2>1 DEF Bijection, Injection, Surjection, IsInjective
  <2>3. IsFiniteSet(1..m) /\ Cardinality(1..m) = m
    <3>1. 1 \in Int /\ m \in Int /\ (IF 1 > m THEN 0 ELSE m - 1 + 1) = m
      BY <1>2
    <3> QED BY <3>1, FS_Interval
  <2>4. ExistsBijection(1..m, new)
    BY <2>2 DEF ExistsBijection
  <2> QED BY <2>3, <2>4, FS_Bijection
<1>7. /\ IsFiniteSet(RecordsIn(u))
      /\ Cardinality(RecordsIn(u)) = Cardinality(RecordsIn(s)) + Cardinality(new) - Cardinality({})
  BY <1>4, <1>5, <1>6, FS_Union
<1> QED BY <1>1, <1>2, <1>6, <1>7, FS_EmptySet, FS_CardinalityType

(***************************************************************************)
(* The books of one producer, and that its first version comes before it   *)
(* is in its loop.                                                         *)
(***************************************************************************)
Marker(batches) == IF <<>> \in ToSet(batches) THEN 1 ELSE 0

(* The books of one producer: what they count is what it has published. *)
BooksInv(w) ==
  /\ books[w] \in [versions : Nat, written : Nat, batches : Nat, errors : Nat]
  /\ published[w] \in Seq(Seq(Range(Feed)))
  /\ IsFiniteSet(RecordsIn(published[w]))
  /\ books[w].versions = Len(published[w])
  /\ books[w].written = Cardinality(RecordsIn(published[w])) + Marker(published[w])
  /\ program = "production" =>
       /\ books[w].batches = Len(published[w]) - Marker(published[w])
       /\ producer[w].version = Len(published[w]) + (IF producer[w].stored THEN 1 ELSE 0)
  /\ pool[w].loop \in {"new", "starting"} => Marker(published[w]) = 0

(* The inductive invariant: the books, batches of the right kind, and places. *)
AccountInv ==
  /\ fed <= Len(Feed) /\ roundRobin \in Nat
  /\ books = [w \in Writers |-> books[w]]
  /\ published = [w \in Writers |-> published[w]]
  /\ \A w \in Writers : BooksInv(w)
  /\ \A f \in flushes : IF f.who = "initial" THEN f.records = <<>> /\ program = "production"
                        ELSE f.records # <<>>
  /\ \A r \in Range(Feed) : OnePlace(r)

(* A batch more is the marker, or leaves it as it was. *)
LEMMA MarkerGrows ==
  ASSUME NEW T, NEW s \in Seq(Seq(T)), NEW t \in Seq(T)
  PROVE  Marker(Append(s, t)) = IF t = <<>> THEN 1 ELSE Marker(s)
<1>1. PICK u : u = Append(s, t)
  OBVIOUS
<1>2. /\ DOMAIN u = 1..(Len(s) + 1) /\ DOMAIN s = 1..Len(s) /\ Len(s) \in Nat
      /\ \A b \in 1..Len(s) : u[b] = s[b]
      /\ u[Len(s) + 1] = t
  BY <1>1
<1>3. \A b \in 1..(Len(s) + 1) : b \in 1..Len(s) \/ b = Len(s) + 1
  BY <1>2
<1>4. \A b \in 1..Len(s) : b \in 1..(Len(s) + 1)
  BY <1>2
<1>5. Len(s) + 1 \in 1..(Len(s) + 1)
  BY <1>2
<1>6. ToSet(u) = ToSet(s) \cup {t}
  <2>1. \A x : x \in ToSet(u) <=> \E b \in 1..(Len(s) + 1) : x = u[b]
    BY <1>2 DEF ToSet
  <2>2. \A x : x \in ToSet(s) <=> \E b \in 1..Len(s) : x = s[b]
    BY <1>2 DEF ToSet
  <2>3. \A x : x \in ToSet(u) <=> x \in ToSet(s) \/ x = t
    BY <1>2, <1>3, <1>4, <1>5, <2>1, <2>2
  <2> QED BY <2>3
<1> QED BY <1>1, <1>6 DEF Marker

(* At first there is no record anywhere, and no book counts anything. *)
LEMMA AccountInvInit == PoolInit(SnapshotFrequency) => AccountInv
<1> SUFFICES ASSUME PoolInit(SnapshotFrequency) PROVE AccountInv
  OBVIOUS
<1>1. /\ fed = 0 /\ roundRobin = 0 /\ flushes = {} /\ dropped = {} /\ refused = {}
      /\ pool = [w \in Writers |-> NewProductionProducer]
      /\ books = [w \in Writers |-> EmptyBooks]
      /\ published = [w \in Writers |-> <<>>]
      /\ producer = [w \in Writers |->
           [version |-> 0, lastSnapshot |-> 0, frequency |-> SnapshotFrequency, stored |-> FALSE]]
  BY DEF PoolInit, StoreInit
<1>2. Len(Feed) \in Nat
  BY PoolAssumption
<1>3. /\ RecordsIn(<<>>) = {} /\ ToSet(<<>>) = {} /\ \A r : IndicesOf(<<>>, r) = {}
  BY DEF RecordsIn, ToSet, IndicesOf
<1>4. IsFiniteSet({}) /\ Cardinality({}) = 0
  BY FS_EmptySet
<1>5. ASSUME NEW w \in Writers PROVE BooksInv(w)
  <2>1. /\ books[w] = EmptyBooks /\ published[w] = <<>>
        /\ producer[w].version = 0 /\ producer[w].stored = FALSE
    BY <1>1
  <2>2. /\ EmptyBooks \in [versions : Nat, written : Nat, batches : Nat, errors : Nat]
        /\ EmptyBooks.versions = 0 /\ EmptyBooks.written = 0 /\ EmptyBooks.batches = 0
    BY DEF EmptyBooks
  <2>3. PICK none : none = <<>>
    OBVIOUS
  <2>4. /\ none \in Seq(Seq(Range(Feed))) /\ Len(none) = 0 /\ Marker(none) = 0
        /\ RecordsIn(none) = {}
    BY <1>3, <2>3 DEF Marker
  <2>5. published[w] = none
    BY <2>1, <2>3
  <2>6. Cardinality(RecordsIn(none)) = 0 /\ IsFiniteSet(RecordsIn(none))
    BY <1>4, <2>4
  <2>7. PICK b : b = EmptyBooks /\ books[w] = b
    BY <2>1
  <2>8. b.written = Cardinality(RecordsIn(none)) + Marker(none)
    BY <2>2, <2>4, <2>6, <2>7
  <2>9. b.batches = Len(none) - Marker(none)
    BY <2>2, <2>4, <2>7
  <2>10. producer[w].version = Len(none) + (IF producer[w].stored THEN 1 ELSE 0)
    <3>1. ~producer[w].stored
      BY <1>1
    <3> QED BY <2>1, <2>4, <3>1
  <2>11. b \in [versions : Nat, written : Nat, batches : Nat, errors : Nat] /\ b.versions = Len(none)
    BY <2>2, <2>4, <2>7
  <2> QED BY <2>4, <2>5, <2>6, <2>7, <2>8, <2>9, <2>10, <2>11, Zenon DEF BooksInv
<1>6. ASSUME NEW r \in Range(Feed) PROVE OnePlace(r)
  <2>1. ~Offered(r)
    BY <1>1 DEF Offered
  <2>2. \A w \in Writers : pool[w].pending = <<>> /\ published[w] = <<>>
    BY <1>1 DEF NewProductionProducer
  <2>3. InQueues(r) = {} /\ InBatches(r) = {} /\ InVersions(r) = {}
    BY <1>1, <1>3, <2>2 DEF InQueues, InBatches, InVersions
  <2> QED BY <1>1, <2>1, <2>3 DEF OnePlace, Places
<1> QED BY <1>1, <1>2, <1>5, <1>6 DEF AccountInv

(* What most steps leave alone. *)
LEMMA BooksStay ==
  ASSUME NEW w \in Writers, BooksInv(w), program' = program, published'[w] = published[w],
         books'[w] \in [versions : Nat, written : Nat, batches : Nat, errors : Nat],
         books'[w].versions = books[w].versions, books'[w].written = books[w].written,
         books'[w].batches = books[w].batches,
         program = "production" =>
           \/ producer'[w].version = producer[w].version /\ producer'[w].stored = producer[w].stored
           \/ /\ producer'[w].version = producer[w].version + 1
              /\ producer'[w].stored = TRUE /\ producer[w].stored = FALSE,
         pool'[w].loop \in {"new", "starting"} => pool[w].loop \in {"new", "starting"}
  PROVE  BooksInv(w)'
<1>1. PICK s, b, c : s = published[w] /\ b = books[w] /\ c = books'[w]
  OBVIOUS
<1>2. Len(s) \in Nat
  BY <1>1 DEF BooksInv
<1>3. ASSUME program = "production"
      PROVE  producer'[w].version = Len(s) + (IF producer'[w].stored THEN 1 ELSE 0)
  <2>1. producer[w].version = Len(s) + (IF producer[w].stored THEN 1 ELSE 0)
    BY <1>1, <1>3 DEF BooksInv
  <2>2. CASE producer'[w].version = producer[w].version /\ producer'[w].stored = producer[w].stored
    BY <2>1, <2>2
  <2>3. CASE /\ producer'[w].version = producer[w].version + 1
             /\ producer'[w].stored = TRUE /\ producer[w].stored = FALSE
    <3>1. producer[w].version = Len(s)
      BY <1>2, <2>1, <2>3
    <3> QED BY <1>2, <2>3, <3>1
  <2> QED BY <1>3, <2>2, <2>3
<1> QED BY <1>1, <1>3 DEF BooksInv

(* A version more of a producer, with "more" records and "n" batches. *)
BooksGrow(w, records, more, n) ==
  /\ program' = program
  /\ records \in Seq(Range(Feed)) /\ n \in Nat
  /\ more = IF records = <<>> THEN 1 ELSE Len(records)
  /\ published'[w] = Append(published[w], records)
  /\ books'[w] = [books[w] EXCEPT !.versions = @ + 1, !.written = @ + more, !.batches = @ + n]
  /\ records = <<>> => pool[w].loop \in {"new", "starting"}
  /\ pool'[w].loop \in {"new", "starting"} =>
       records # <<>> /\ pool[w].loop \in {"new", "starting"}
  /\ program = "production" =>
       /\ n = IF records = <<>> THEN 0 ELSE 1
       /\ producer[w].stored = TRUE /\ producer'[w].stored = FALSE
       /\ producer'[w].version = producer[w].version

(* Whatever publishes, the books of the producer go along. *)
LEMMA BooksGrowWell ==
  ASSUME NEW w \in Writers, BooksInv(w), NEW records, NEW more, NEW n,
         BooksGrow(w, records, more, n)
  PROVE  BooksInv(w)'
<1>1. PICK s, t, b, c : s = published[w] /\ t = Append(s, records) /\ b = books[w] /\ c = books'[w]
  OBVIOUS
<1> USE DEF BooksGrow
<1>2. /\ s \in Seq(Seq(Range(Feed))) /\ IsFiniteSet(RecordsIn(s)) /\ Len(s) \in Nat
      /\ b \in [versions : Nat, written : Nat, batches : Nat, errors : Nat]
      /\ b.versions = Len(s) /\ b.written = Cardinality(RecordsIn(s)) + Marker(s)
  BY <1>1 DEF BooksInv
<1>3. Len(records) \in Nat /\ (records = <<>> => Len(records) = 0)
  OBVIOUS
<1>4. /\ t \in Seq(Seq(Range(Feed))) /\ Len(t) = Len(s) + 1
      /\ IsFiniteSet(RecordsIn(t))
      /\ Cardinality(RecordsIn(t)) = Cardinality(RecordsIn(s)) + Len(records)
      /\ Marker(t) = IF records = <<>> THEN 1 ELSE Marker(s)
      /\ Cardinality(RecordsIn(s)) \in Nat
  <2>1. t \in Seq(Seq(Range(Feed))) /\ Len(t) = Len(s) + 1
    BY <1>1, <1>2
  <2>2. /\ IsFiniteSet(RecordsIn(Append(s, records)))
        /\ Cardinality(RecordsIn(Append(s, records))) = Cardinality(RecordsIn(s)) + Len(records)
    BY <1>2, RecordsGrow
  <2>3. Marker(Append(s, records)) = IF records = <<>> THEN 1 ELSE Marker(s)
    BY <1>2, MarkerGrows
  <2> QED BY <1>1, <1>2, <2>1, <2>2, <2>3, FS_CardinalityType
<1>5. Marker(s) \in {0, 1} /\ (records = <<>> => Marker(s) = 0)
  BY <1>1 DEF BooksInv, Marker
<1>6. c = [b EXCEPT !.versions = @ + 1, !.written = @ + more, !.batches = @ + n]
  BY <1>1
<1>7. /\ more \in Nat
      /\ c \in [versions : Nat, written : Nat, batches : Nat, errors : Nat]
      /\ c.versions = b.versions + 1 /\ c.written = b.written + more /\ c.batches = b.batches + n
  <2>1. more \in Nat
    BY <1>3
  <2>2. PICK x, y, z : x = b.versions + 1 /\ y = b.written + more /\ z = b.batches + n
    OBVIOUS
  <2>3. x \in Nat /\ y \in Nat /\ z \in Nat
    BY <1>2, <2>1, <2>2
  <2>4. c = [b EXCEPT !.versions = x, !.written = y, !.batches = z]
    BY <1>6, <2>2
  <2> QED BY <1>2, <2>1, <2>2, <2>3, <2>4
<1>8. c.versions = Len(t) /\ c.written = Cardinality(RecordsIn(t)) + Marker(t)
  BY <1>2, <1>3, <1>4, <1>5, <1>7
<1>9. program = "production" =>
         /\ c.batches = Len(t) - Marker(t)
         /\ producer'[w].version = Len(t) + (IF producer'[w].stored THEN 1 ELSE 0)
  <2> HAVE program = "production"
  <2>1. /\ b.batches = Len(s) - Marker(s)
        /\ producer[w].version = Len(s) + 1
    BY <1>1 DEF BooksInv
  <2>2. c.batches = Len(t) - Marker(t)
    <3>0. n = IF records = <<>> THEN 0 ELSE 1
      OBVIOUS
    <3> HIDE DEF BooksGrow
    <3>1. /\ b.batches = Len(s) - Marker(s) /\ c.batches = b.batches + n
          /\ Len(s) \in Nat /\ Len(t) = Len(s) + 1
          /\ Marker(t) = IF records = <<>> THEN 1 ELSE Marker(s)
      BY <1>2, <1>4, <1>7, <2>1
    <3>2. Marker(s) \in {0, 1} /\ (records = <<>> => Marker(s) = 0)
      BY <1>5
    <3>3. CASE records = <<>>
      <4>1. n = 0 /\ Marker(t) = 1 /\ Marker(s) = 0
        BY <3>0, <3>1, <3>2, <3>3
      <4> QED BY <3>1, <4>1
    <3>4. CASE records # <<>>
      <4>1. n = 1 /\ Marker(t) = Marker(s)
        BY <3>0, <3>1, <3>4
      <4> QED BY <3>1, <3>2, <4>1
    <3> QED BY <3>3, <3>4
  <2>3. producer'[w].version = Len(t) + (IF producer'[w].stored THEN 1 ELSE 0)
    BY <1>2, <1>4, <2>1
  <2> QED BY <2>2, <2>3
<1>10. pool'[w].loop \in {"new", "starting"} => Marker(t) = 0
  BY <1>1, <1>4 DEF BooksInv
<1> QED BY <1>1, <1>4, <1>7, <1>8, <1>9, <1>10 DEF BooksInv

(* Steps that touch neither records nor books. *)
LEMMA PlacesStay ==
  ASSUME SamePending, UNCHANGED <<fed, published, dropped, refused>>, NEW r, OnePlace(r),
         InBatches(r)' = InBatches(r)
  PROVE  OnePlace(r)'
<1>1. InQueues(r)' = InQueues(r) /\ InVersions(r)' = InVersions(r) /\ (Offered(r)' <=> Offered(r))
  BY QueuesStay DEF InVersions, Offered
<1> QED BY <1>1 DEF OnePlace, Places

(* A loop that has started never comes back before its start. *)
LoopsGoOn ==
  \A w \in Writers :
    pool'[w].loop \in {"new", "starting"} => pool[w].loop \in {"new", "starting"}

(* No producer publishes, and no loop goes back: all books hold still. *)
LEMMA AllBooksStay ==
  ASSUME AccountInv, UNCHANGED <<program, published, books, producer>>, LoopsGoOn
  PROVE  \A w \in Writers : BooksInv(w)'
<1> SUFFICES ASSUME NEW w \in Writers PROVE BooksInv(w)'
  OBVIOUS
<1>1. BooksInv(w)
  BY DEF AccountInv
<1>2. books[w] \in [versions : Nat, written : Nat, batches : Nat, errors : Nat]
  BY <1>1 DEF BooksInv
<1>3. pool'[w].loop \in {"new", "starting"} => pool[w].loop \in {"new", "starting"}
  BY DEF LoopsGoOn
<1> QED BY <1>1, <1>2, <1>3, BooksStay

(* Callers add records, one or several. *)
LEMMA AccountAdding ==
  ASSUME PoolInv, AccountInv, AddRecord \/ \E count \in 2..Len(Feed) : AddRecords(count)
  PROVE  AccountInv'
<1>1. fed <= Len(Feed) /\ roundRobin \in Nat
  BY DEF AccountInv
<1>2. /\ fed' \in Nat /\ fed' <= Len(Feed) /\ roundRobin' \in Nat
      /\ \E chunks : /\ \A w \in Writers : chunks[w] \in Seq(Range(Feed))
                     /\ Distribute(chunks) /\ Distributes(chunks)
  BY <1>1, AddingDistributes
<1>3. PICK chunks : /\ \A w \in Writers : chunks[w] \in Seq(Range(Feed))
                    /\ Distribute(chunks) /\ Distributes(chunks)
  BY <1>2
<1>4. \A r \in Range(Feed) : OnePlace(r)'
  BY <1>3, DistributingKeepsPlaces DEF AccountInv
<1>5. UNCHANGED <<storeVars, program, flushes, books, published>>
  BY <1>3 DEF Distribute
<1>6. LoopsGoOn
  <2>1. PICK taken : pool' = [w \in Writers |-> IF w \in taken THEN Queue(pool[w], chunks[w])
                                                ELSE pool[w]]
    BY <1>3 DEF Distribute
  <2>2. \A w \in Writers : pool'[w].loop = pool[w].loop
    BY <1>3, <2>1, QueueKeeps DEF PoolInv
  <2> QED BY <2>2 DEF LoopsGoOn
<1>7. \A w \in Writers : BooksInv(w)'
  BY <1>5, <1>6, AllBooksStay DEF storeVars
<1> QED BY <1>2, <1>4, <1>5, <1>7 DEF AccountInv

(* A loop takes its queue for a batch, or finds nothing to take. *)
LEMMA AccountTaking ==
  ASSUME PoolInv, AccountInv, NEW w \in Writers, NEW who \in {"loop", "shutdown", "auto"}, NEW p,
         IsProductionProducer(p), p.pending = pool[w].pending,
         p.loop \in {"new", "starting"} => pool[w].loop \in {"new", "starting"},
         TakeBatch(w, who, p) \/ NothingTaken(w, p), ElsewhereInPool
  PROVE  AccountInv'
<1>1. UNCHANGED <<storeVars, program, fed, roundRobin, books, published, dropped, refused>>
  BY DEF ElsewhereInPool
<1> SUFFICES /\ LoopsGoOn /\ \A r \in Range(Feed) : OnePlace(r)'
             /\ \A f \in flushes' : IF f.who = "initial" THEN f.records = <<>> /\ program = "production"
                                    ELSE f.records # <<>>
  <2>1. ASSUME LoopsGoOn PROVE \A v \in Writers : BooksInv(v)'
    BY <1>1, <2>1, AllBooksStay DEF storeVars
  <2> QED BY <1>1, <2>1 DEF AccountInv
<1>2. CASE TakeBatch(w, who, p)
  <2>1. PICK q, g : /\ q = [p EXCEPT !.pending = <<>>] /\ g = Batch(w, who, p.pending)
                    /\ pool' = [pool EXCEPT ![w] = q] /\ flushes' = flushes \cup {g}
                    /\ p.pending # <<>>
    BY <1>2 DEF TakeBatch
  <2>2. q.loop = p.loop /\ \A v \in Writers : pool'[v] = IF v = w THEN q ELSE pool[v]
    BY <2>1 DEF IsProductionProducer, PoolInv
  <2>3. LoopsGoOn
    BY <2>2 DEF LoopsGoOn
  <2>4. g.who = who /\ g.records = p.pending
    BY <2>1 DEF Batch
  <2>5. ASSUME NEW r \in Range(Feed) PROVE OnePlace(r)'
    <3>1. OnePlace(r)
      BY DEF AccountInv
    <3>2. /\ pool' = [pool EXCEPT ![w] = [p EXCEPT !.pending = <<>>]]
          /\ flushes' = flushes \cup {Batch(w, who, p.pending)}
      BY <1>2 DEF TakeBatch
    <3> QED BY <1>1, <3>1, <3>2, TakingKeepsPlaces
  <2> QED BY <2>1, <2>3, <2>4, <2>5 DEF AccountInv
<1>3. CASE NothingTaken(w, p)
  <2>1. pool' = [pool EXCEPT ![w] = p] /\ flushes' = flushes
    BY <1>3 DEF NothingTaken
  <2>2. \A v \in Writers : pool'[v] = IF v = w THEN p ELSE pool[v]
    BY <2>1 DEF PoolInv
  <2>3. LoopsGoOn /\ SamePending
    BY <2>2 DEF LoopsGoOn, SamePending
  <2>4. \A r \in Range(Feed) : InBatches(r)' = InBatches(r)
    BY <2>1 DEF InBatches
  <2>5. \A r \in Range(Feed) : OnePlace(r)'
    BY <1>1, <2>3, <2>4, PlacesStay DEF AccountInv
  <2> QED BY <2>1, <2>3, <2>5 DEF AccountInv
<1> QED BY <1>2, <1>3

(* Whatever makes a loop flush: a full batch, a tick or the shutdown. *)
LEMMA AccountFlushing ==
  ASSUME PoolInv, AccountInv, NEW w \in Writers, AutoFlush(w) \/ Tick(w) \/ GracefulShutdown(w)
  PROVE  AccountInv'
<1>1. PICK x : x = pool[w]
  OBVIOUS
<1>2. x \in [loop : Loops, pending : Seq(Range(Feed)), waking : Nat, late : SUBSET Range(Feed)]
  BY <1>1 DEF PoolInv, QueueInv, IsProductionProducer
<1>3. ElsewhereInPool
  BY DEF AutoFlush, Tick, GracefulShutdown
<1>4. CASE AutoFlush(w)
  <2>1. PICK p : p = [x EXCEPT !.waking = @ - 1]
    OBVIOUS
  <2>2. x.waking > 0 /\ (TakeBatch(w, "auto", p) \/ NothingTaken(w, p))
    BY <1>1, <1>4, <2>1 DEF AutoFlush
  <2>3. x.waking - 1 \in Nat
    BY <1>2, <2>2
  <2>4. IsProductionProducer(p) /\ p.loop = x.loop /\ p.pending = x.pending
    BY <1>2, <2>1, <2>3 DEF IsProductionProducer
  <2> QED BY <1>1, <1>3, <2>2, <2>4, AccountTaking
<1>5. CASE Tick(w)
  <2>1. PICK p : p = [x EXCEPT !.loop = "flushing"]
    OBVIOUS
  <2>2. TakeBatch(w, "loop", p)
    BY <1>1, <1>5, <2>1 DEF Tick
  <2>3. IsProductionProducer(p) /\ p.loop = "flushing" /\ p.pending = x.pending
    BY <1>2, <2>1 DEF IsProductionProducer, Loops
  <2> QED BY <1>1, <1>3, <2>2, <2>3, AccountTaking
<1>6. CASE GracefulShutdown(w)
  <2>1. PICK p, q : p = [x EXCEPT !.loop = "closing"] /\ q = [x EXCEPT !.loop = "stopped"]
    OBVIOUS
  <2>2. TakeBatch(w, "shutdown", p) \/ NothingTaken(w, q)
    BY <1>1, <1>6, <2>1 DEF GracefulShutdown
  <2>3. /\ IsProductionProducer(p) /\ p.loop = "closing" /\ p.pending = x.pending
        /\ IsProductionProducer(q) /\ q.loop = "stopped" /\ q.pending = x.pending
    BY <1>2, <2>1 DEF IsProductionProducer, Loops
  <2>4. CASE TakeBatch(w, "shutdown", p)
    BY <1>1, <1>3, <2>3, <2>4, AccountTaking
  <2>5. CASE NothingTaken(w, q)
    BY <1>1, <1>3, <2>3, <2>5, AccountTaking
  <2> QED BY <2>2, <2>4, <2>5
<1> QED BY <1>4, <1>5, <1>6

(* A loop starts, with or without a first version. *)
LEMMA AccountStarting ==
  ASSUME PoolInv, AccountInv, NEW w \in Writers, CreateInitialSnapshot(w) \/ SimpleStart(w)
  PROVE  AccountInv'
<1>1. PICK x : x = pool[w] /\ x.loop = "new"
  BY DEF CreateInitialSnapshot, SimpleStart
<1>2. x \in [loop : Loops, pending : Seq(Range(Feed)), waking : Nat, late : SUBSET Range(Feed)]
  BY <1>1 DEF PoolInv, QueueInv, IsProductionProducer
<1>3. UNCHANGED <<storeVars, program, fed, roundRobin, dropped, refused>>
  BY DEF CreateInitialSnapshot, SimpleStart, Unfed
<1>4. \A r : IndicesOf(<<>>, r) = {}
  BY DEF IndicesOf
<1>5. CASE CreateInitialSnapshot(w)
  <2>1. PICK q, g : /\ q = [x EXCEPT !.loop = "starting"] /\ g = Batch(w, "initial", <<>>)
                    /\ pool' = [pool EXCEPT ![w] = q] /\ flushes' = flushes \cup {g}
    BY <1>1, <1>5 DEF CreateInitialSnapshot
  <2>2. /\ q.loop = "starting" /\ q.pending = x.pending
        /\ \A v \in Writers : pool'[v] = IF v = w THEN q ELSE pool[v]
    BY <1>2, <2>1 DEF PoolInv
  <2>3. LoopsGoOn /\ SamePending
    BY <1>1, <2>2 DEF LoopsGoOn, SamePending
  <2>4. UNCHANGED <<books, published>>
    BY <1>5 DEF CreateInitialSnapshot
  <2>5. g.who = "initial" /\ g.records = <<>> /\ program = "production"
    BY <1>5, <2>1 DEF Batch, CreateInitialSnapshot
  <2>6. ASSUME NEW r \in Range(Feed) PROVE InBatches(r)' = InBatches(r)
    <3>1. \A y : y \in InBatches(r)' <=> y \in InBatches(r)
      BY <1>4, <2>1, <2>5, PlacesOf
    <3> QED BY <3>1
  <2>7. \A r \in Range(Feed) : OnePlace(r)'
    BY <1>3, <2>3, <2>4, <2>6, PlacesStay DEF AccountInv
  <2>8. \A v \in Writers : BooksInv(v)'
    BY <1>3, <2>3, <2>4, AllBooksStay DEF storeVars
  <2> QED BY <1>3, <2>1, <2>4, <2>5, <2>7, <2>8 DEF AccountInv
<1>6. CASE SimpleStart(w)
  <2>1. PICK q : /\ q = [x EXCEPT !.loop = "running"]
                 /\ pool' = [pool EXCEPT ![w] = q] /\ flushes' = flushes
    BY <1>1, <1>6 DEF SimpleStart
  <2>2. /\ q.loop = "running" /\ q.pending = x.pending
        /\ \A v \in Writers : pool'[v] = IF v = w THEN q ELSE pool[v]
    BY <1>2, <2>1 DEF PoolInv
  <2>3. LoopsGoOn /\ SamePending
    BY <1>1, <2>2 DEF LoopsGoOn, SamePending
  <2>4. /\ program = "simple"
        /\ published' = [published EXCEPT ![w] = Append(@, <<>>)]
        /\ books' = [books EXCEPT ![w].versions = @ + 1, ![w].written = @ + 1, ![w].batches = @ + 0]
    BY <1>6 DEF SimpleStart, Count
  <2>5. PICK none : none \in Seq(Range(Feed)) /\ none = <<>>
    <3>1. <<>> \in Seq(Range(Feed))
      OBVIOUS
    <3> QED BY <3>1
  <2>6. /\ published'[w] = Append(published[w], none)
        /\ \A v \in Writers \ {w} : published'[v] = published[v]
    BY <2>4, <2>5 DEF AccountInv
  <2>7. published' = [v \in Writers |-> published'[v]]
    BY <2>4 DEF AccountInv
  <2>8. /\ books'[w] = [books[w] EXCEPT !.versions = @ + 1, !.written = @ + 1, !.batches = @ + 0]
        /\ \A v \in Writers \ {w} : books'[v] = books[v]
        /\ books' = [v \in Writers |-> books'[v]]
    BY <2>4 DEF AccountInv
  <2>9. BooksInv(w)'
    <3>1. BooksInv(w) /\ program # "production" /\ program' = program
      BY <1>3, <2>4 DEF AccountInv
    <3>2. PICK more, n : more = (IF none = <<>> THEN 1 ELSE Len(none)) /\ n \in Nat /\ n = 0
      OBVIOUS
    <3>4. books'[w] = [books[w] EXCEPT !.versions = @ + 1, !.written = @ + more, !.batches = @ + n]
      BY <2>5, <2>8, <3>2
    <3>3. pool[w].loop = "new" /\ pool'[w].loop = "running"
      BY <1>1, <2>2
    <3>5. BooksGrow(w, none, more, n)
      BY <2>5, <2>6, <3>1, <3>2, <3>3, <3>4 DEF BooksGrow
    <3> QED BY <3>1, <3>5, BooksGrowWell
  <2>10. ASSUME NEW v \in Writers PROVE BooksInv(v)'
    <3>1. CASE v # w
      <4>1. /\ BooksInv(v) /\ books'[v] = books[v] /\ published'[v] = published[v]
            /\ books[v] \in [versions : Nat, written : Nat, batches : Nat, errors : Nat]
            /\ pool'[v] = pool[v] /\ program' = program /\ producer' = producer
        BY <1>3, <2>2, <2>6, <2>8, <3>1 DEF AccountInv, BooksInv, storeVars
      <4> QED BY <4>1, BooksStay
    <3> QED BY <2>9, <3>1
  <2>11. ASSUME NEW r \in Range(Feed) PROVE OnePlace(r)'
    <3>1. published[w] \in Seq(Seq(Range(Feed))) /\ OnePlace(r)
      BY DEF AccountInv, BooksInv
    <3>2. \A y : y \in InVersions(r)' <=>
                   \/ y \in InVersions(r)
                   \/ \E i \in IndicesOf(none, r) :
                        y = <<"version", <<w, Len(published[w]) + 1>>, i>>
      BY <2>6, <3>1, VersionsGrow
    <3>3. InVersions(r)' = InVersions(r)
      BY <1>4, <2>5, <3>2
    <3>4. InQueues(r)' = InQueues(r) /\ InBatches(r)' = InBatches(r) /\ (Offered(r)' <=> Offered(r))
      BY <1>3, <2>1, <2>3, QueuesStay DEF InBatches, Offered
    <3> QED BY <1>3, <3>1, <3>3, <3>4 DEF OnePlace, Places
  <2> QED BY <1>3, <2>1, <2>8, <2>10, <2>11, <2>7 DEF AccountInv
<1> QED BY <1>5, <1>6

(* A flush that is over leaves all queues alone. *)
LEMMA OverMoves ==
  ASSUME PoolInv, NEW f \in flushes, NEW done, Over(f, done)
  PROVE  /\ f.by \in Writers /\ SamePending /\ flushes' = flushes \ {f}
         /\ \A v \in Writers \ {f.by} : pool'[v] = pool[v]
         /\ pool'[f.by].loop \in {"new", "starting"} =>
              f.who = "auto" /\ pool'[f.by].loop = pool[f.by].loop
         /\ LoopsGoOn
<1>1. PICK w, x, place : w = f.by /\ x = pool[w] /\ place = LoopAfter(f, done)
  OBVIOUS
<1>2. w \in Writers /\ f.who \in {"initial", "loop", "shutdown", "auto"}
  BY <1>1 DEF PoolInv, IsBatch
<1>3. x \in [loop : Loops, pending : Seq(Range(Feed)), waking : Nat, late : SUBSET Range(Feed)]
  BY <1>1, <1>2 DEF PoolInv, QueueInv, IsProductionProducer
<1>4. PICK q : /\ q = [x EXCEPT !.loop = place]
               /\ pool' = [pool EXCEPT ![w] = q] /\ flushes' = flushes \ {f}
  BY <1>1 DEF Over
<1>5. q.loop = place /\ q.pending = x.pending
  BY <1>3, <1>4
<1>6. pool'[w] = q /\ \A v \in Writers \ {w} : pool'[v] = pool[v]
  BY <1>2, <1>4 DEF PoolInv
<1>7. place \in {"new", "starting"} => f.who = "auto" /\ place = x.loop
  <2>1. CASE f.who = "auto"
    BY <1>1, <2>1 DEF LoopAfter
  <2>2. CASE f.who = "initial"
    BY <1>1, <2>2 DEF LoopAfter
  <2>3. CASE f.who = "loop"
    BY <1>1, <2>3 DEF LoopAfter
  <2>4. CASE f.who = "shutdown"
    BY <1>1, <2>4 DEF LoopAfter
  <2> QED BY <1>2, <2>1, <2>2, <2>3, <2>4
<1>8. SamePending
  BY <1>1, <1>5, <1>6 DEF SamePending
<1>9. LoopsGoOn
  BY <1>1, <1>5, <1>6, <1>7 DEF LoopsGoOn
<1> QED BY <1>1, <1>2, <1>4, <1>5, <1>6, <1>7, <1>8, <1>9

(* What the store and the announcer change of a producer. *)
LEMMA ProducersMove ==
  ASSUME SharedInv, NEW w \in Writers
  PROVE  /\ StoreBlob(w) \/ StoreFails(w) \/ Announce(w) =>
              \A v \in Writers \ {w} : producer'[v] = producer[v]
         /\ StoreBlob(w) =>
              /\ producer'[w].version = producer[w].version + 1
              /\ producer'[w].stored = TRUE /\ producer[w].stored = FALSE
         /\ StoreFails(w) => /\ producer'[w].version = producer[w].version
                             /\ producer'[w].stored = producer[w].stored
         /\ Announce(w) => /\ producer'[w].version = producer[w].version
                           /\ producer[w].stored = TRUE /\ producer'[w].stored = FALSE
<1>1. PICK p, q : p = producer[w] /\ IsProducer(p) /\ q = Noted(p)
  BY DEF SharedInv
<1>2. p \in [version : 0..MaxVersion, lastSnapshot : Nat, frequency : Nat, stored : BOOLEAN]
  BY <1>1 DEF IsProducer
<1>3. /\ q \in [version : 0..MaxVersion, lastSnapshot : Nat, frequency : Nat, stored : BOOLEAN]
      /\ q.version = p.version /\ q.stored = p.stored
  BY <1>1, <1>2, SharedStoreAssumption DEF Noted
<1>4. ASSUME StoreBlob(w)
      PROVE  /\ \A v \in Writers \ {w} : producer'[v] = producer[v]
             /\ producer'[w].version = producer[w].version + 1
             /\ producer'[w].stored = TRUE /\ producer[w].stored = FALSE
  <2>1. PICK next : /\ next = [q EXCEPT !.version = @ + 1, !.stored = TRUE]
                    /\ producer' = [producer EXCEPT ![w] = next] /\ ~p.stored
    BY <1>1, <1>4 DEF StoreBlob, MayRunCycle
  <2>2. next.version = p.version + 1 /\ next.stored = TRUE
    BY <1>3, <2>1
  <2>3. producer'[w] = next /\ \A v \in Writers \ {w} : producer'[v] = producer[v]
    BY <2>1 DEF SharedInv
  <2>4. p.stored = FALSE
    BY <1>2, <2>1
  <2> QED BY <1>1, <2>2, <2>3, <2>4
<1>5. ASSUME StoreFails(w)
      PROVE  /\ \A v \in Writers \ {w} : producer'[v] = producer[v]
             /\ producer'[w].version = producer[w].version
             /\ producer'[w].stored = producer[w].stored
  <2>1. producer' = [producer EXCEPT ![w] = q]
    BY <1>1, <1>5 DEF StoreFails
  <2>2. producer'[w] = q /\ \A v \in Writers \ {w} : producer'[v] = producer[v]
    BY <2>1 DEF SharedInv
  <2> QED BY <1>1, <1>3, <2>2
<1>6. ASSUME Announce(w)
      PROVE  /\ \A v \in Writers \ {w} : producer'[v] = producer[v]
             /\ producer'[w].version = producer[w].version
             /\ producer[w].stored = TRUE /\ producer'[w].stored = FALSE
  <2>1. producer' = [producer EXCEPT ![w].stored = FALSE] /\ p.stored
    BY <1>1, <1>6 DEF Announce
  <2>2. /\ producer'[w] = [p EXCEPT !.stored = FALSE]
        /\ \A v \in Writers \ {w} : producer'[v] = producer[v]
    BY <1>1, <2>1 DEF SharedInv
  <2>3. p.stored = TRUE
    BY <1>2, <2>1
  <2>4. [p EXCEPT !.stored = FALSE].version = p.version /\ [p EXCEPT !.stored = FALSE].stored = FALSE
    BY <1>2
  <2> QED BY <1>1, <2>2, <2>3, <2>4
<1> QED BY <1>4, <1>5, <1>6

(* What a producer may do while its books stay. *)
Advances(w) ==
  \/ producer'[w].version = producer[w].version /\ producer'[w].stored = producer[w].stored
  \/ /\ producer'[w].version = producer[w].version + 1
     /\ producer'[w].stored = TRUE /\ producer[w].stored = FALSE

(* A batch is attempted again, or waits to be announced.                   *)
LEMMA AccountTrying ==
  ASSUME PoolInv, AccountInv, NEW f \in flushes, NEW g, g.records = f.records, g.who = f.who,
         flushes' = (flushes \ {f}) \cup {g},
         UNCHANGED <<pool, program, fed, roundRobin, books, published, dropped, refused>>,
         \A w \in Writers : Advances(w)
  PROVE  AccountInv'
<1>1. SamePending /\ LoopsGoOn
  BY DEF SamePending, LoopsGoOn
<1>2. \A r \in Range(Feed) : OnePlace(r)'
  BY <1>1, BatchKeepsPlaces DEF AccountInv
<1>3. ASSUME NEW w \in Writers PROVE BooksInv(w)'
  <2>1. BooksInv(w) /\ books[w] \in [versions : Nat, written : Nat, batches : Nat, errors : Nat]
    BY DEF AccountInv, BooksInv
  <2>2. Advances(w)
    OBVIOUS
  <2> QED BY <2>1, <2>2, BooksStay DEF Advances
<1> QED BY <1>2, <1>3 DEF AccountInv

(* A cycle stores a version without publishing it yet. *)
LEMMA AccountRunCycle ==
  ASSUME SharedInv, PoolInv, AccountInv, NEW f \in flushes, RunCycle(f)
  PROVE  AccountInv'
<1>1. f \in [by : Writers, who : {"initial", "loop", "shutdown", "auto"},
             records : Seq(Range(Feed)), tries : Nat, at : {"cycle", "announce"}]
  BY DEF PoolInv, IsBatch
<1>2. PICK g : g = [f EXCEPT !.at = "announce"]
  OBVIOUS
<1>3. g.records = f.records /\ g.who = f.who
  BY <1>1, <1>2
<1>4. /\ flushes' = (flushes \ {f}) \cup {g} /\ StoreBlob(f.by)
      /\ UNCHANGED <<pool, program, fed, roundRobin, books, published, dropped, refused>>
  BY <1>2 DEF RunCycle, Unfed
<1>5. ASSUME NEW v \in Writers PROVE Advances(v)
  <2>1. f.by \in Writers
    BY <1>1
  <2>2. CASE v = f.by
    BY <1>4, <2>1, <2>2, ProducersMove DEF Advances
  <2>3. CASE v # f.by
    BY <1>4, <2>1, <2>3, ProducersMove DEF Advances
  <2> QED BY <2>2, <2>3
<1> QED BY <1>3, <1>4, <1>5, AccountTrying

(* A flush fails, and is tried again or given up. *)
LEMMA AccountFailing ==
  ASSUME SharedInv, PoolInv, AccountInv, NEW f \in flushes, FlushFails(f)
  PROVE  AccountInv'
<1>1. f \in [by : Writers, who : {"initial", "loop", "shutdown", "auto"},
             records : Seq(Range(Feed)), tries : Nat, at : {"cycle", "announce"}]
  BY DEF PoolInv, IsBatch
<1>2. PICK w, givenUp, g : /\ w = f.by /\ w \in Writers
                           /\ givenUp = (f.who = "initial" \/ f.tries = ErrorRetryAttempts)
                           /\ g = [f EXCEPT !.tries = @ + 1]
  BY <1>1
<1>3. g.records = f.records /\ g.who = f.who
  BY <1>1, <1>2
<1>4. /\ UNCHANGED <<program, fed, roundRobin, published, refused>> /\ StoreFails(w)
      /\ IF givenUp THEN Over(f, FALSE)
         ELSE flushes' = (flushes \ {f}) \cup {g} /\ UNCHANGED pool
      /\ dropped' = IF givenUp THEN dropped \cup ToSet(f.records) ELSE dropped
      /\ books' = IF givenUp /\ f.who \in {"loop", "auto"}
                  THEN [books EXCEPT ![w].errors = @ + 1] ELSE books
  BY <1>2 DEF FlushFails, Unfed
<1>5. ASSUME NEW v \in Writers
      PROVE  producer'[v].version = producer[v].version /\ producer'[v].stored = producer[v].stored
  <2>1. CASE v = w
    BY <1>2, <1>4, <2>1, ProducersMove
  <2>2. CASE v # w
    BY <1>2, <1>4, <2>2, ProducersMove
  <2> QED BY <2>1, <2>2
<1>6. CASE ~givenUp
  <2>1. \A v \in Writers : Advances(v)
    BY <1>5 DEF Advances
  <2> QED BY <1>3, <1>4, <1>6, <2>1, AccountTrying
<1>7. CASE givenUp
  <2>1. Over(f, FALSE) /\ dropped' = dropped \cup ToSet(f.records)
    BY <1>4, <1>7
  <2>2. SamePending /\ LoopsGoOn /\ flushes' = flushes \ {f}
    BY <2>1, OverMoves
  <2>3. \A r \in Range(Feed) : OnePlace(r)'
    BY <1>4, <2>1, <2>2, GivingUpKeepsPlaces DEF AccountInv
  <2>4. ASSUME NEW v \in Writers
        PROVE  /\ books'[v] \in [versions : Nat, written : Nat, batches : Nat, errors : Nat]
               /\ books'[v].versions = books[v].versions /\ books'[v].written = books[v].written
               /\ books'[v].batches = books[v].batches
    <3>1. PICK b, e : /\ b = books[v] /\ e = b.errors + 1
                      /\ b \in [versions : Nat, written : Nat, batches : Nat, errors : Nat]
      BY DEF AccountInv, BooksInv
    <3>2. books'[v] = b \/ books'[v] = [b EXCEPT !.errors = e]
      BY <1>2, <1>4, <3>1 DEF AccountInv
    <3>3. e \in Nat
      BY <3>1
    <3>4. PICK c : c = [b EXCEPT !.errors = e]
      OBVIOUS
    <3>5. /\ c \in [versions : Nat, written : Nat, batches : Nat, errors : Nat]
          /\ c.versions = b.versions /\ c.written = b.written /\ c.batches = b.batches
      BY <3>1, <3>3, <3>4
    <3> QED BY <3>1, <3>2, <3>4, <3>5
  <2>5. books' = [v \in Writers |-> books'[v]]
    BY <1>2, <1>4 DEF AccountInv
  <2>6. ASSUME NEW v \in Writers PROVE BooksInv(v)'
    <3>1. BooksInv(v) /\ published'[v] = published[v] /\ program' = program
      BY <1>4 DEF AccountInv
    <3>2. pool'[v].loop \in {"new", "starting"} => pool[v].loop \in {"new", "starting"}
      BY <2>2 DEF LoopsGoOn
    <3> QED BY <1>5, <2>4, <3>1, <3>2, BooksStay
  <2> QED BY <1>4, <2>2, <2>3, <2>5, <2>6 DEF AccountInv
<1> QED BY <1>6, <1>7

(* A flush publishes. *)
LEMMA AccountPublishing ==
  ASSUME SharedInv, PoolInv, AccountInv, NEW f \in flushes, FlushRecordsBatch(f) \/ SimpleFlush(f)
  PROVE  AccountInv'
<1>1. PICK w, records : /\ w = f.by /\ w \in Writers
                        /\ records = f.records /\ records \in Seq(Range(Feed))
  BY DEF PoolInv, IsBatch
<1>2. /\ Over(f, TRUE) /\ UNCHANGED <<program, fed, roundRobin, dropped, refused>>
      /\ published' = [published EXCEPT ![w] = Append(@, records)]
  BY <1>1 DEF FlushRecordsBatch, SimpleFlush, Unfed
<1>3. /\ SamePending /\ LoopsGoOn /\ flushes' = flushes \ {f}
      /\ pool'[w].loop \in {"new", "starting"} => f.who = "auto" /\ pool'[w].loop = pool[w].loop
  BY <1>1, <1>2, OverMoves
<1>4. /\ published'[w] = Append(published[w], records)
      /\ \A v \in Writers \ {w} : published'[v] = published[v]
  BY <1>1, <1>2 DEF AccountInv
<1>5. ASSUME NEW r \in Range(Feed) PROVE OnePlace(r)'
  <2>1. published[w] \in Seq(Seq(Range(Feed))) /\ OnePlace(r)
    BY <1>1 DEF AccountInv, BooksInv
  <2> HIDE <1>2
  <2>2. UNCHANGED <<fed, dropped, refused>>
    BY <1>2
  <2> QED BY <1>1, <1>3, <1>4, <2>1, <2>2, PublishingKeepsPlaces
<1>6. IF f.who = "initial" THEN records = <<>> /\ program = "production" ELSE records # <<>>
  BY <1>1 DEF AccountInv
<1>7. PICK more, n :
        /\ more = (IF records = <<>> THEN 1 ELSE Len(records)) /\ n \in {0, 1}
        /\ program = "production" /\ FlushRecordsBatch(f) => n = IF records = <<>> THEN 0 ELSE 1
        /\ books' = [books EXCEPT ![w].versions = @ + 1, ![w].written = @ + more,
                                  ![w].batches = @ + n]
  <2>1. CASE FlushRecordsBatch(f) /\ f.who = "initial"
    BY <1>1, <1>6, <2>1 DEF FlushRecordsBatch, Count
  <2>2. CASE FlushRecordsBatch(f) /\ f.who # "initial"
    BY <1>1, <1>6, <2>2 DEF FlushRecordsBatch, Count
  <2>3. CASE SimpleFlush(f)
    BY <1>1, <1>6, <2>3 DEF SimpleFlush, Count
  <2> QED BY <2>1, <2>2, <2>3
<1>8. /\ books'[w] = [books[w] EXCEPT !.versions = @ + 1, !.written = @ + more, !.batches = @ + n]
      /\ \A v \in Writers \ {w} : books'[v] = books[v]
  BY <1>1, <1>7 DEF AccountInv
<1>9. books' = [v \in Writers |-> books'[v]] /\ published' = [v \in Writers |-> published'[v]]
  BY <1>1, <1>2, <1>7 DEF AccountInv
<1>10. BooksInv(w)'
  <2>1. BooksInv(w) /\ program' = program
    BY <1>1, <1>2 DEF AccountInv
  <2>2. program = "production" =>
          /\ n = IF records = <<>> THEN 0 ELSE 1
          /\ producer[w].stored = TRUE /\ producer'[w].stored = FALSE
          /\ producer'[w].version = producer[w].version
    <3>1. program = "production" => FlushRecordsBatch(f)
      BY DEF SimpleFlush
    <3>2. FlushRecordsBatch(f) => Announce(w)
      BY <1>1 DEF FlushRecordsBatch
    <3> QED BY <1>1, <1>7, <3>1, <3>2, ProducersMove
  <2>3. records = <<>> => pool[w].loop \in {"new", "starting"}
    BY <1>1, <1>6 DEF PoolInv, During
  <2>4. pool'[w].loop \in {"new", "starting"} =>
          records # <<>> /\ pool[w].loop \in {"new", "starting"}
    BY <1>3, <1>6
  <2>5. n \in Nat
    BY <1>7
  <2>6. more = IF records = <<>> THEN 1 ELSE Len(records)
    BY <1>7
  <2>7. BooksGrow(w, records, more, n)
    BY <1>1, <1>4, <1>8, <2>1, <2>2, <2>3, <2>4, <2>5, <2>6 DEF BooksGrow
  <2> QED BY <1>1, <2>1, <2>7, BooksGrowWell
<1>11. ASSUME NEW v \in Writers PROVE BooksInv(v)'
  <2>1. CASE v # w
    <3>1. /\ BooksInv(v) /\ books'[v] = books[v] /\ published'[v] = published[v]
          /\ books[v] \in [versions : Nat, written : Nat, batches : Nat, errors : Nat]
          /\ program' = program
      BY <1>2, <1>4, <1>8, <2>1 DEF AccountInv, BooksInv
    <3>2. pool'[v].loop \in {"new", "starting"} => pool[v].loop \in {"new", "starting"}
      BY <1>3 DEF LoopsGoOn
    <3>3. Announce(w) \/ UNCHANGED producer
      BY <1>1 DEF FlushRecordsBatch, SimpleFlush, storeVars
    <3>4. producer'[v] = producer[v]
      BY <1>1, <2>1, <3>3, ProducersMove
    <3> QED BY <3>1, <3>2, <3>4, BooksStay
  <2> QED BY <1>10, <2>1
<1> QED BY <1>2, <1>3, <1>5, <1>9, <1>11 DEF AccountInv

(* Every step of the pool. *)
LEMMA AccountStep ==
  SharedInv /\ PoolInv /\ AccountInv /\ [PoolNext]_poolVars => AccountInv'
<1> SUFFICES ASSUME SharedInv, PoolInv, AccountInv, [PoolNext]_poolVars PROVE AccountInv'
  OBVIOUS
<1>1. ASSUME UNCHANGED <<program, fed, roundRobin, producer, pool, flushes, books, published,
                         dropped, refused>>
      PROVE  AccountInv'
  <2>1. SamePending /\ LoopsGoOn /\ \A r : InBatches(r)' = InBatches(r)
    BY <1>1 DEF SamePending, LoopsGoOn, InBatches
  <2>2. \A r \in Range(Feed) : OnePlace(r)'
    BY <1>1, <2>1, PlacesStay DEF AccountInv
  <2>3. \A w \in Writers : BooksInv(w)'
    BY <1>1, <2>1, AllBooksStay
  <2> QED BY <1>1, <2>2, <2>3 DEF AccountInv
<1>2. CASE AddRecord \/ \E count \in 2..Len(Feed) : AddRecords(count)
  BY <1>2, AccountAdding
<1>3. ASSUME NEW w \in Writers,
             \/ CreateInitialSnapshot(w) \/ SimpleStart(w)
             \/ AutoFlush(w) \/ Tick(w) \/ GracefulShutdown(w)
      PROVE  AccountInv'
  BY <1>3, AccountStarting, AccountFlushing
<1>4. ASSUME NEW w \in Writers, SimpleStop(w) PROVE AccountInv'
  BY <1>1, <1>4 DEF SimpleStop, storeVars
<1>5. ASSUME NEW f \in flushes,
             RunCycle(f) \/ FlushRecordsBatch(f) \/ FlushFails(f) \/ SimpleFlush(f)
      PROVE  AccountInv'
  BY <1>5, AccountRunCycle, AccountFailing, AccountPublishing
<1>6. CASE Cancel
  BY <1>1, <1>6 DEF Cancel, storeVars
<1>7. CASE UNCHANGED poolVars
  BY <1>1, <1>7 DEF poolVars, poolOwnVars, storeVars
<1> QED BY <1>2, <1>3, <1>4, <1>5, <1>6, <1>7 DEF PoolNext

(***************************************************************************)
(* No record is lost or published twice by AddRecords, the loops, the      *)
(* goroutines of full batches, retries and the shutdown: every record that *)
(* was offered is in one place; and the statistics of a producer count its *)
(* versions, batches and records (ProductionProducer.stats).               *)
(***************************************************************************)
THEOREM RecordsStayAccountedFor == PoolSpec => []RecordsAreAccountedFor
<1>1. AccountInv => RecordsAreAccountedFor
  <2> SUFFICES ASSUME AccountInv PROVE RecordsAreAccountedFor
    OBVIOUS
  <2>1. \A w \in Writers : BooksInv(w)
    BY DEF AccountInv
  <2>2. \A r \in Range(Feed) : OnePlace(r)
    BY DEF AccountInv
  <2> QED BY <2>1, <2>2 DEF BooksInv, Marker, OnePlace, RecordsAreAccountedFor
<1>2. PoolInit(SnapshotFrequency) => SharedInv
  BY SharedInvInit, PoolAssumption DEF PoolInit
<1> QED BY <1>1, <1>2, PoolInvInit, AccountInvInit, PoolStep, PoolStoreStep, AccountStep, PTL
        DEF PoolSpec

(***************************************************************************)
(* Schema documents                                                        *)
(***************************************************************************)

(* Induction over numbers is the search for the first counterexample. *)
LEMMA FirstExists ==
  ASSUME NEW T, T \subseteq Nat, T # {}
  PROVE  \E x \in T : \A y \in T : x <= y
<1> DEFINE R == OpToRel(<, Nat)
<1>1. IsWellFoundedOn(R, Nat)
  BY NatLessThanWellFounded
<1>2. \A x, y \in Nat : y < x => <<y, x>> \in R
  BY DEF OpToRel
<1> HIDE DEF R
<1>3. PICK x \in T : \A y \in T : <<y, x>> \notin R
  BY <1>1, WFMin
<1>4. ASSUME NEW y \in T PROVE x <= y
  <2>1. x \in Nat /\ y \in Nat
    OBVIOUS
  <2>2. ~(y < x)
    BY <1>2, <1>3, <2>1
  <2> QED BY <2>1, <2>2
<1> QED BY <1>4

(* A list of something. *)
IsList(x) == \E S : x \in Seq(S)

IsObject(s) == \E name, fields : IsList(fields) /\ s = ObjectSchema(name, fields)
IsSchema(s) ==
  \/ IsObject(s)
  \/ \E name, element : s = SetSchema(name, element) \/ s = ListSchema(name, element)
  \/ \E name, key, value : s = MapSchema(name, key, value)

AreSchemas(list) == IsList(list) /\ \A i \in DOMAIN list : IsSchema(list[i])

(* The kind of a schema tells what it holds. *)
LEMMA KindTells ==
  ASSUME NEW s, s = NoSchema \/ IsSchema(s)
  PROVE  /\ s.kind = "Object" => IsObject(s)
         /\ s.kind \in {"Set", "List"} =>
              \E name, element : s = SetSchema(name, element) \/ s = ListSchema(name, element)
         /\ s.kind = "Map" => \E name, key, value : s = MapSchema(name, key, value)
         /\ s = NoSchema \/ s.kind \in {"Object", "Set", "List", "Map"}
<1>1. CASE s = NoSchema
  <2>1. s.kind = "none"
    BY <1>1 DEF NoSchema
  <2> QED BY <1>1, <2>1
<1>2. CASE IsObject(s)
  <2>1. PICK name, fields : s = ObjectSchema(name, fields)
    BY <1>2 DEF IsObject
  <2>2. s.kind = "Object"
    BY <2>1 DEF ObjectSchema
  <2> QED BY <1>2, <2>2
<1>3. CASE \E name, element : s = SetSchema(name, element) \/ s = ListSchema(name, element)
  <2>1. s.kind \in {"Set", "List"}
    BY <1>3 DEF SetSchema, ListSchema
  <2> QED BY <1>3, <2>1
<1>4. CASE \E name, key, value : s = MapSchema(name, key, value)
  <2>1. s.kind = "Map"
    BY <1>4 DEF MapSchema
  <2> QED BY <1>4, <2>1
<1> QED BY <1>1, <1>2, <1>3, <1>4 DEF IsSchema

(* What a parser has made of the lines so far. *)
Progress(made, current, type, inFields, panicked) ==
  [schemas |-> made, current |-> current, schemaType |-> type, inFields |-> inFields,
   panicked |-> panicked]
IsProgress(p) ==
  \E made, current, type, inFields, panicked :
    /\ AreSchemas(made)
    /\ current = NoSchema \/ IsSchema(current)
    /\ p = Progress(made, current, type, inFields, panicked)

LEMMA ListGrows ==
  ASSUME NEW list, NEW e, IsList(list)
  PROVE  /\ IsList(Append(list, e)) /\ DOMAIN Append(list, e) = 1..(Len(list) + 1)
         /\ Len(list) \in Nat /\ DOMAIN list = 1..Len(list)
         /\ \A i \in DOMAIN list : Append(list, e)[i] = list[i]
         /\ Append(list, e)[Len(list) + 1] = e
<1>1. PICK S : list \in Seq(S)
  BY DEF IsList
<1>2. list \in Seq(S \cup {e}) /\ e \in S \cup {e}
  BY <1>1
<1>3. Append(list, e) \in Seq(S \cup {e})
  BY <1>2
<1> QED BY <1>2, <1>3 DEF IsList

LEMMA SchemasGrow ==
  ASSUME NEW list, NEW s, AreSchemas(list), IsSchema(s)
  PROVE  AreSchemas(Append(list, s))
<1>1. IsList(list)
  BY DEF AreSchemas
<1>2. ASSUME NEW i \in DOMAIN Append(list, s) PROVE IsSchema(Append(list, s)[i])
  <2>1. i \in DOMAIN list \/ i = Len(list) + 1
    BY <1>1, ListGrows
  <2> QED BY <1>1, <2>1, ListGrows DEF AreSchemas
<1> QED BY <1>1, <1>2, ListGrows DEF AreSchemas

LEMMA SchemasJoin ==
  ASSUME NEW a, NEW b, AreSchemas(a), AreSchemas(b)
  PROVE  AreSchemas(a \o b)
<1>1. PICK S, T : a \in Seq(S) /\ b \in Seq(T)
  BY DEF AreSchemas, IsList
<1>2. a \in Seq(S \cup T) /\ b \in Seq(S \cup T)
  BY <1>1
<1>3. a \o b \in Seq(S \cup T)
  BY <1>2
<1>4. ASSUME NEW i \in DOMAIN (a \o b) PROVE IsSchema((a \o b)[i])
  <2>1. /\ i \in 1..(Len(a) + Len(b)) /\ Len(a) \in Nat /\ Len(b) \in Nat
        /\ DOMAIN a = 1..Len(a) /\ DOMAIN b = 1..Len(b)
        /\ (a \o b)[i] = IF i <= Len(a) THEN a[i] ELSE b[i - Len(a)]
    BY <1>2
  <2>2. CASE i <= Len(a)
    BY <2>1, <2>2 DEF AreSchemas
  <2>3. CASE ~(i <= Len(a))
    <3>1. i - Len(a) \in 1..Len(b)
      BY <2>1, <2>3
    <3> QED BY <2>1, <2>3, <3>1 DEF AreSchemas
  <2> QED BY <2>2, <2>3
<1> QED BY <1>3, <1>4 DEF AreSchemas, IsList

LEMMA NoSchemaIsNone == ~IsSchema(NoSchema)
  BY DEF IsSchema, IsObject, NoSchema, ObjectSchema, SetSchema, ListSchema, MapSchema

(* The changes the parsers make. *)
WithSchemas(p, x) == [p EXCEPT !.schemas = x]
WithCurrent(p, y) == [p EXCEPT !.current = y]
WithBoth(p, x, y) == [p EXCEPT !.schemas = x, !.current = y]
WithField(p, field) == [p EXCEPT !.current.fields = Append(@, field)]
WithPlace(p, b) == [p EXCEPT !.inFields = b]
WithEnd(p, b) == [p EXCEPT !.panicked = b]
WithType(p, y, t, b) == [p EXCEPT !.schemaType = t, !.panicked = b, !.current = y]
WithStart(p, x, y, t, b) ==
  [p EXCEPT !.schemas = x, !.current = y, !.schemaType = t, !.inFields = b]

(* Its parts, and what EXCEPT makes of it. *)
LEMMA ProgressHas ==
  ASSUME NEW p, IsProgress(p)
  PROVE  /\ AreSchemas(p.schemas) /\ AreSchemas(Finished(p))
         /\ p.current = NoSchema \/ IsSchema(p.current)
         /\ \E type, inFields, panicked :
              p = Progress(p.schemas, p.current, type, inFields, panicked)
<1>1. PICK made, current, type, inFields, panicked :
        /\ AreSchemas(made)
        /\ current = NoSchema \/ IsSchema(current)
        /\ p = Progress(made, current, type, inFields, panicked)
  BY DEF IsProgress
<1>2. p.schemas = made /\ p.current = current
  BY <1>1 DEF Progress
<1>3. AreSchemas(Finished(p))
  BY <1>1, <1>2, SchemasGrow DEF Finished
<1> QED BY <1>1, <1>2, <1>3

LEMMA ProgressIs ==
  ASSUME NEW made, AreSchemas(made), NEW current, current = NoSchema \/ IsSchema(current),
         NEW type, NEW inFields, NEW panicked
  PROVE  IsProgress(Progress(made, current, type, inFields, panicked))
BY DEF IsProgress

LEMMA ProgressChanges ==
  ASSUME NEW p, IsProgress(p)
  PROVE  /\ \A x, y : AreSchemas(x) /\ (y = NoSchema \/ IsSchema(y)) =>
              IsProgress(WithBoth(p, x, y)) /\ WithBoth(p, x, y).current = y
         /\ \A x : AreSchemas(x) =>
              IsProgress(WithSchemas(p, x)) /\ WithSchemas(p, x).current = p.current
         /\ \A y : y = NoSchema \/ IsSchema(y) =>
              IsProgress(WithCurrent(p, y)) /\ WithCurrent(p, y).current = y
         /\ \A b : IsProgress(WithPlace(p, b)) /\ IsProgress(WithEnd(p, b))
         /\ \A y, t, b : y = NoSchema \/ IsSchema(y) => IsProgress(WithType(p, y, t, b))
         /\ \A x, y, t, b : AreSchemas(x) /\ IsSchema(y) => IsProgress(WithStart(p, x, y, t, b))
<1>1. PICK type, inFields, panicked : p = Progress(p.schemas, p.current, type, inFields, panicked)
  BY ProgressHas
<1>2. PICK made, current : made = p.schemas /\ current = p.current
  OBVIOUS
<1>3. p = Progress(made, current, type, inFields, panicked)
  BY <1>1, <1>2
<1>4. AreSchemas(made) /\ (current = NoSchema \/ IsSchema(current))
  BY <1>2, ProgressHas
<1>5. ASSUME NEW x, AreSchemas(x)
      PROVE  IsProgress(WithSchemas(p, x)) /\ WithSchemas(p, x).current = p.current
  <2>1. WithSchemas(p, x) = Progress(x, current, type, inFields, panicked)
    BY <1>3 DEF Progress, WithSchemas
  <2>2. Progress(x, current, type, inFields, panicked).current = current
    BY DEF Progress
  <2> QED BY <1>2, <1>4, <1>5, <2>1, <2>2, ProgressIs
<1>6. ASSUME NEW y, y = NoSchema \/ IsSchema(y)
      PROVE  IsProgress(WithCurrent(p, y)) /\ WithCurrent(p, y).current = y
  <2>1. WithCurrent(p, y) = Progress(made, y, type, inFields, panicked)
    BY <1>3 DEF Progress, WithCurrent
  <2>2. Progress(made, y, type, inFields, panicked).current = y
    BY DEF Progress
  <2> QED BY <1>4, <1>6, <2>1, <2>2, ProgressIs
<1>7. ASSUME NEW x, NEW y, AreSchemas(x), y = NoSchema \/ IsSchema(y)
      PROVE  IsProgress(WithBoth(p, x, y)) /\ WithBoth(p, x, y).current = y
  <2>1. [p EXCEPT !.schemas = x] = Progress(x, current, type, inFields, panicked)
    BY <1>3 DEF Progress
  <2>2. [Progress(x, current, type, inFields, panicked) EXCEPT !.current = y] =
          Progress(x, y, type, inFields, panicked)
    BY DEF Progress
  <2>3. WithBoth(p, x, y) = [[p EXCEPT !.schemas = x] EXCEPT !.current = y]
    BY DEF WithBoth
  <2>4. Progress(x, y, type, inFields, panicked).current = y
    BY DEF Progress
  <2>5. WithBoth(p, x, y) = Progress(x, y, type, inFields, panicked)
    BY ONLY <2>1, <2>2, <2>3, Zenon
  <2> QED BY <1>7, <2>4, <2>5, ProgressIs
<1>8. ASSUME NEW b PROVE IsProgress(WithPlace(p, b)) /\ IsProgress(WithEnd(p, b))
  <2>1. WithPlace(p, b) = Progress(made, current, type, b, panicked)
    BY <1>3 DEF Progress, WithPlace
  <2>2. WithEnd(p, b) = Progress(made, current, type, inFields, b)
    BY <1>3 DEF Progress, WithEnd
  <2> QED BY <1>4, <2>1, <2>2, ProgressIs
<1>9. ASSUME NEW y, NEW t, NEW b, y = NoSchema \/ IsSchema(y)
      PROVE  IsProgress(WithType(p, y, t, b))
  <2>1. WithType(p, y, t, b) =
          [[[p EXCEPT !.schemaType = t] EXCEPT !.panicked = b] EXCEPT !.current = y]
    BY DEF WithType
  <2>2. [p EXCEPT !.schemaType = t] = Progress(made, current, t, inFields, panicked)
    BY <1>3 DEF Progress
  <2>3. [Progress(made, current, t, inFields, panicked) EXCEPT !.panicked = b] =
          Progress(made, current, t, inFields, b)
    BY DEF Progress
  <2>4. [Progress(made, current, t, inFields, b) EXCEPT !.current = y] =
          Progress(made, y, t, inFields, b)
    BY DEF Progress
  <2>5. WithType(p, y, t, b) = Progress(made, y, t, inFields, b)
    BY ONLY <2>1, <2>2, <2>3, <2>4, Zenon
  <2> QED BY <1>4, <1>9, <2>5, ProgressIs
<1>10. ASSUME NEW x, NEW y, NEW t, NEW b, AreSchemas(x), IsSchema(y)
       PROVE  IsProgress(WithStart(p, x, y, t, b))
  <2>1. WithStart(p, x, y, t, b) =
          [[[[p EXCEPT !.schemas = x] EXCEPT !.current = y] EXCEPT !.schemaType = t]
             EXCEPT !.inFields = b]
    BY DEF WithStart
  <2>2. [p EXCEPT !.schemas = x] = Progress(x, current, type, inFields, panicked)
    BY <1>3 DEF Progress
  <2>3. [Progress(x, current, type, inFields, panicked) EXCEPT !.current = y] =
          Progress(x, y, type, inFields, panicked)
    BY DEF Progress
  <2>4. [Progress(x, y, type, inFields, panicked) EXCEPT !.schemaType = t] =
          Progress(x, y, t, inFields, panicked)
    BY DEF Progress
  <2>5. [Progress(x, y, t, inFields, panicked) EXCEPT !.inFields = b] =
          Progress(x, y, t, b, panicked)
    BY DEF Progress
  <2>6. WithStart(p, x, y, t, b) = Progress(x, y, t, b, panicked)
    <3>1. PICK a, b1, c : /\ a = [p EXCEPT !.schemas = x] /\ b1 = [a EXCEPT !.current = y]
                          /\ c = [b1 EXCEPT !.schemaType = t]
      OBVIOUS
    <3>2. WithStart(p, x, y, t, b) = [c EXCEPT !.inFields = b]
      BY <2>1, <3>1
    <3>3. /\ a = Progress(x, current, type, inFields, panicked)
          /\ b1 = Progress(x, y, type, inFields, panicked)
          /\ c = Progress(x, y, t, inFields, panicked)
      BY <2>2, <2>3, <2>4, <3>1
    <3> QED BY <2>5, <3>2, <3>3
  <2> QED BY <1>10, <2>6, ProgressIs
<1> QED BY <1>5, <1>6, <1>7, <1>8, <1>9, <1>10

(* An open object gets one more field. *)
LEMMA FieldIsAdded ==
  ASSUME NEW p, IsProgress(p), NEW field, IsObject(p.current)
  PROVE  IsProgress(WithField(p, field)) /\ IsObject(WithField(p, field).current)
<1>1. PICK name, fields : IsList(fields) /\ p.current = ObjectSchema(name, fields)
  BY DEF IsObject
<1> DEFINE new == ObjectSchema(name, Append(fields, field))
<1>2. WithField(p, field) = WithCurrent(p, new)
  <2>1. [p.current EXCEPT !.fields = Append(@, field)] = new
    BY <1>1 DEF ObjectSchema
  <2>2. WithField(p, field) = [p EXCEPT !.current = [p.current EXCEPT !.fields = Append(@, field)]]
    BY DEF WithField
  <2> HIDE DEF new
  <2> QED BY <2>1, <2>2 DEF WithCurrent
<1>3. IsObject(new) /\ IsSchema(new)
  BY <1>1, ListGrows DEF IsObject, IsSchema
<1> HIDE DEF new
<1> QED BY <1>2, <1>3, ProgressChanges

LEMMA AddFieldKeeps ==
  ASSUME NEW p, IsProgress(p), NEW name, NEW text
  PROVE  IsProgress(AddField(p, name, text))
<1> DEFINE field == FieldOf("yaml", name, text)
<1>1. CASE ~p.inFields \/ p.schemaType # "Object"
  BY <1>1 DEF AddField
<1>2. CASE ~(~p.inFields \/ p.schemaType # "Object") /\ p.current.kind # "Object"
  <2>1. AddField(p, name, text) = [p EXCEPT !.panicked = TRUE]
    BY <1>2 DEF AddField
  <2>2. AddField(p, name, text) = WithEnd(p, TRUE)
    BY <2>1 DEF WithEnd
  <2> QED BY <2>2, ProgressChanges
<1>3. CASE ~(~p.inFields \/ p.schemaType # "Object") /\ p.current.kind = "Object"
  <2>1. IsObject(p.current)
    BY <1>3, ProgressHas, KindTells
  <2>2. AddField(p, name, text) = WithField(p, field)
    BY <1>3 DEF AddField, WithField
  <2> HIDE DEF field
  <2> QED BY <2>1, <2>2, FieldIsAdded
<1> QED BY <1>1, <1>2, <1>3

LEMMA SetPartKeeps ==
  ASSUME NEW p, IsProgress(p), NEW part, NEW text
  PROVE  IsProgress(SetPart(p, part, text))
<1>1. /\ AreSchemas(p.schemas)
      /\ p.current = NoSchema \/ IsSchema(p.current)
  BY ProgressHas
<1>2. ASSUME NEW new, IsSchema(new), SetPart(p, part, text) = WithCurrent(p, new)
      PROVE  IsProgress(SetPart(p, part, text))
  BY <1>2, ProgressChanges
<1>3. CASE part = "ElementType" /\ p.current.kind \in {"Set", "List"}
  <2>1. PICK name, element :
          p.current = SetSchema(name, element) \/ p.current = ListSchema(name, element)
    BY <1>1, <1>3, KindTells
  <2>2. SetPart(p, part, text) = [p EXCEPT !.current.elementType = text]
    BY <1>3 DEF SetPart
  <2>3. PICK new : new = [p.current EXCEPT !.elementType = text]
    OBVIOUS
  <2>4. SetPart(p, part, text) = WithCurrent(p, new)
    <3>1. [p EXCEPT !.current.elementType = text] =
            [p EXCEPT !.current = [p.current EXCEPT !.elementType = text]]
      OBVIOUS
    <3> QED BY <2>2, <2>3, <3>1 DEF WithCurrent
  <2>5. new = SetSchema(name, text) \/ new = ListSchema(name, text)
    BY <2>1, <2>3 DEF SetSchema, ListSchema
  <2> QED BY <1>2, <2>4, <2>5 DEF IsSchema
<1>4. CASE part \in {"KeyType", "ValueType"} /\ p.current.kind = "Map"
  <2>1. PICK name, key, value : p.current = MapSchema(name, key, value)
    BY <1>1, <1>4, KindTells
  <2>2. CASE part = "KeyType"
    <3>1. SetPart(p, part, text) = [p EXCEPT !.current.keyType = text]
      BY <1>4, <2>2 DEF SetPart
    <3>2. PICK new : new = [p.current EXCEPT !.keyType = text]
      OBVIOUS
    <3>3. SetPart(p, part, text) = WithCurrent(p, new)
      <4>1. [p EXCEPT !.current.keyType = text] =
              [p EXCEPT !.current = [p.current EXCEPT !.keyType = text]]
        OBVIOUS
      <4> QED BY <3>1, <3>2, <4>1 DEF WithCurrent
    <3>4. new = MapSchema(name, text, value)
      BY <2>1, <3>2 DEF MapSchema
    <3> QED BY <1>2, <3>3, <3>4 DEF IsSchema
  <2>3. CASE part = "ValueType"
    <3>1. SetPart(p, part, text) = [p EXCEPT !.current.valueType = text]
      BY <1>4, <2>3 DEF SetPart
    <3>2. PICK new : new = [p.current EXCEPT !.valueType = text]
      OBVIOUS
    <3>3. SetPart(p, part, text) = WithCurrent(p, new)
      <4>1. [p EXCEPT !.current.valueType = text] =
              [p EXCEPT !.current = [p.current EXCEPT !.valueType = text]]
        OBVIOUS
      <4> QED BY <3>1, <3>2, <4>1 DEF WithCurrent
    <3>4. new = MapSchema(name, key, text)
      BY <2>1, <3>2 DEF MapSchema
    <3> QED BY <1>2, <3>3, <3>4 DEF IsSchema
  <2> QED BY <1>4, <2>2, <2>3
<1>5. CASE ~(part = "ElementType" /\ p.current.kind \in {"Set", "List"}) /\
           ~(part \in {"KeyType", "ValueType"} /\ p.current.kind = "Map")
  BY <1>5 DEF SetPart
<1> QED BY <1>3, <1>4, <1>5

LEMMA EmptyObject == ASSUME NEW name PROVE IsObject(ObjectSchema(name, <<>>))
<1>1. IsList(<<>>)
  <2>1. <<>> \in Seq({})
    OBVIOUS
  <2> QED BY <2>1 DEF IsList
<1> QED BY <1>1 DEF IsObject

LEMMA ParseLineKeeps ==
  ASSUME NEW p, IsProgress(p), NEW line
  PROVE  IsProgress(ParseLine(p, line))
<1>1. AreSchemas(Finished(p)) /\ (p.current = NoSchema \/ IsSchema(p.current))
  BY ProgressHas
<1>2. CASE p.panicked
  BY <1>2 DEF ParseLine
<1>3. CASE ~p.panicked /\ line.is = "TypeName"
  <2> DEFINE new == ObjectSchema(line.name, <<>>)
  <2>1. ParseLine(p, line) = NewType(p, line.name)
    BY <1>3 DEF ParseLine
  <2>2. NewType(p, line.name) = WithStart(p, Finished(p), new, "Object", FALSE)
    BY DEF NewType, WithStart
  <2>3. IsSchema(new)
    BY EmptyObject DEF IsSchema
  <2> HIDE DEF new
  <2> QED BY <1>1, <2>1, <2>2, <2>3, ProgressChanges
<1>4. CASE ~p.panicked /\ line.is = "Type"
  <2> DEFINE t == line.text
             new == IF p.current = NoSchema THEN p.current
                    ELSE CASE t = "Set" -> SetSchema(p.current.name, NoText)
                           [] t = "List" -> ListSchema(p.current.name, NoText)
                           [] t = "Map" -> MapSchema(p.current.name, NoText, NoText)
                           [] OTHER -> p.current
             nil == t \in {"Set", "List", "Map"} /\ p.current = NoSchema
  <2>1. ParseLine(p, line) = SetType(p, t)
    BY <1>4 DEF ParseLine
  <2>2. SetType(p, t) = WithType(p, new, t, nil)
    BY DEF SetType, WithType
  <2>3. new = NoSchema \/ IsSchema(new)
    BY <1>1 DEF IsSchema
  <2> HIDE DEF new, nil, t
  <2> QED BY <2>1, <2>2, <2>3, ProgressChanges
<1>5. CASE ~p.panicked /\ line.is = "Fields"
  <2>1. ParseLine(p, line) = WithPlace(p, TRUE)
    BY <1>5 DEF ParseLine, WithPlace
  <2> QED BY <2>1, ProgressChanges
<1>6. CASE ~p.panicked /\ line.is = "Field"
  <2>1. ParseLine(p, line) = AddField(p, line.name, line.text)
    BY <1>6 DEF ParseLine
  <2> QED BY <2>1, AddFieldKeeps
<1>7. CASE ~p.panicked /\ line.is \in {"ElementType", "KeyType", "ValueType"}
  <2>1. ParseLine(p, line) = SetPart(AddField(p, line.is, line.text), line.is, line.text)
    BY <1>7 DEF ParseLine
  <2> QED BY <2>1, AddFieldKeeps, SetPartKeeps
<1>8. CASE ~p.panicked /\
           line.is \notin {"TypeName", "Type", "Fields", "Field", "ElementType", "KeyType", "ValueType"}
  <2>1. ParseLine(p, line) = p
    BY <1>8 DEF ParseLine
  <2> QED BY <2>1
<1> QED BY <1>2, <1>3, <1>4, <1>5, <1>6, <1>7, <1>8

(* Outside of the YAML style only objects are open. *)
OpenIsObject(p) == p.current = NoSchema \/ IsObject(p.current)

(* The steps of the other two parsers. *)
Opened(p, name) == WithCurrent(p, ObjectSchema(name, <<>>))
Closed(p) == WithBoth(p, Finished(p), NoSchema)

LEMMA OpenKeeps ==
  ASSUME NEW p, IsProgress(p), OpenIsObject(p)
  PROVE  /\ \A name : IsProgress(Opened(p, name)) /\ OpenIsObject(Opened(p, name))
         /\ IsProgress(Closed(p)) /\ OpenIsObject(Closed(p))
         /\ p.current # NoSchema =>
              \A field : IsProgress(WithField(p, field)) /\ OpenIsObject(WithField(p, field))
<1>1. AreSchemas(Finished(p))
  BY ProgressHas
<1>2. ASSUME NEW name PROVE IsProgress(Opened(p, name)) /\ OpenIsObject(Opened(p, name))
  <2>1. /\ IsObject(ObjectSchema(name, <<>>)) /\ IsSchema(ObjectSchema(name, <<>>))
    BY EmptyObject DEF IsSchema
  <2> QED BY <2>1, ProgressChanges DEF OpenIsObject, Opened
<1>3. IsProgress(Closed(p)) /\ OpenIsObject(Closed(p))
  BY <1>1, ProgressChanges DEF OpenIsObject, Closed
<1>4. ASSUME p.current # NoSchema, NEW field
      PROVE  IsProgress(WithField(p, field)) /\ OpenIsObject(WithField(p, field))
  BY <1>4, FieldIsAdded DEF OpenIsObject
<1> QED BY <1>2, <1>3, <1>4

LEMMA ParseCLineKeeps ==
  ASSUME NEW p, IsProgress(p), OpenIsObject(p), NEW line
  PROVE  IsProgress(ParseCLine(p, line)) /\ OpenIsObject(ParseCLine(p, line))
<1>1. CASE line.is = "Map"
  <2> DEFINE s == MapSchema(line.name, line.text, line.value)
  <2>1. ParseCLine(p, line) = WithSchemas(p, Append(p.schemas, s))
    BY <1>1 DEF ParseCLine, WithSchemas
  <2>2. IsSchema(s)
    BY DEF IsSchema
  <2> HIDE DEF s
  <2>3. AreSchemas(Append(p.schemas, s))
    BY <2>2, ProgressHas, SchemasGrow
  <2>4. IsProgress(ParseCLine(p, line)) /\ ParseCLine(p, line).current = p.current
    BY <2>1, <2>3, ProgressChanges
  <2> QED BY <2>4 DEF OpenIsObject
<1>2. CASE line.is = "Open"
  <2>1. ParseCLine(p, line) = Opened(p, line.name)
    BY <1>2 DEF ParseCLine, Opened, Closed, WithCurrent, WithBoth, WithField
  <2> QED BY <2>1, OpenKeeps
<1>3. CASE line.is = "Close"
  <2>1. ParseCLine(p, line) = Closed(p)
    BY <1>3 DEF ParseCLine, Opened, Closed, WithCurrent, WithBoth, WithField
  <2> QED BY <2>1, OpenKeeps
<1>4. CASE line.is = "Member" /\ p.current # NoSchema
  <2>1. ParseCLine(p, line) = WithField(p, FieldOf("c", line.name, line.text))
    BY <1>4 DEF ParseCLine, Opened, Closed, WithCurrent, WithBoth, WithField
  <2> QED BY <1>4, <2>1, OpenKeeps
<1>5. CASE line.is \notin {"Map", "Open", "Close"} /\ ~(line.is = "Member" /\ p.current # NoSchema)
  <2>1. ParseCLine(p, line) = p
    BY <1>5 DEF ParseCLine, Opened, Closed, WithCurrent, WithBoth, WithField
  <2> QED BY <2>1
<1> QED BY <1>1, <1>2, <1>3, <1>4, <1>5

LEMMA MatchLineKeeps ==
  ASSUME NEW p, IsProgress(p), OpenIsObject(p), NEW line, NEW keyword
  PROVE  /\ IsProgress(MatchLine(p, line, keyword))
         /\ OpenIsObject(MatchLine(p, line, keyword))
<1>2. CASE line.is = keyword /\ p.current = NoSchema
  <2>1. \/ MatchLine(p, line, keyword) = Opened(p, line.name)
        \/ MatchLine(p, line, keyword) = Closed(p)
    BY <1>2 DEF MatchLine, Opened, Closed, WithCurrent, WithBoth, WithField
  <2> QED BY <2>1, OpenKeeps
<1>3. CASE ~(line.is = keyword /\ p.current = NoSchema) /\ line.is = "Close"
  <2>1. MatchLine(p, line, keyword) = Closed(p)
    BY <1>3 DEF MatchLine, Opened, Closed, WithCurrent, WithBoth, WithField
  <2> QED BY <2>1, OpenKeeps
<1>4. CASE line.is = "Numbered" /\ p.current # NoSchema
  <2>1. MatchLine(p, line, keyword) = WithField(p, FieldOf("capnp", line.name, line.text))
    BY <1>4 DEF MatchLine, Opened, Closed, WithCurrent, WithBoth, WithField
  <2> QED BY <1>4, <2>1, OpenKeeps
<1>5. CASE /\ ~(line.is = keyword /\ p.current = NoSchema) /\ line.is # "Close"
           /\ ~(line.is = "Numbered" /\ p.current # NoSchema)
  <2>1. MatchLine(p, line, keyword) = p
    BY <1>5 DEF MatchLine, Opened, Closed, WithCurrent, WithBoth, WithField
  <2> QED BY <2>1
<1> QED BY <1>2, <1>3, <1>4, <1>5

LEMMA NextLineKeeps ==
  ASSUME NEW parser, NEW p, NEW line, IsProgress(p), parser = "yaml" \/ OpenIsObject(p)
  PROVE  /\ IsProgress(NextLine(parser, p, line))
         /\ parser = "yaml" \/ OpenIsObject(NextLine(parser, p, line))
<1>1. CASE parser = "yaml"
  BY <1>1, ParseLineKeeps DEF NextLine
<1>2. CASE parser = "c"
  BY <1>2, ParseCLineKeeps DEF NextLine
<1>3. CASE parser \notin {"yaml", "c"}
  <2>1. NextLine(parser, p, line) = MatchLine(p, line, parser)
    BY <1>3 DEF NextLine
  <2> QED BY <1>3, <2>1, MatchLineKeeps
<1> QED BY <1>1, <1>2, <1>3

(* What is read after each line of a document exists. *)
LEMMA DocumentIsRead ==
  ASSUME NEW parser, NEW doc, Len(doc) \in Nat
  PROVE  \E after :
           /\ ReadLines(parser, doc) = after[Len(doc)]
           /\ after[0] = Unread
           /\ \A n \in 1..Len(doc) : after[n] = NextLine(parser, after[n - 1], doc[n])
           /\ \A n \in 1..Len(doc) : after[n] = NextLine(parser, after[n - 1], doc[n])
<1> DEFINE N == Len(doc)
           Step(f, n) == IF n = 0 THEN Unread ELSE NextLine(parser, f[n - 1], doc[n])
           ReadTo(f, m) == f = [n \in 0..m |-> Step(f, n)]
           bad == {m \in Nat : m <= N /\ ~\E f : ReadTo(f, m)}
<1>1. bad = {}
  <2> SUFFICES ASSUME bad # {} PROVE FALSE
    OBVIOUS
  <2>1. PICK m : m \in bad /\ \A y \in bad : m <= y
    <3>1. bad \subseteq Nat
      OBVIOUS
    <3> HIDE DEF bad
    <3> QED BY <3>1, FirstExists
  <2>2. m \in Nat /\ m <= N /\ ~\E f : ReadTo(f, m)
    BY <2>1
  <2>3. CASE m = 0
    <3> DEFINE f == [n \in 0..0 |-> Unread]
    <3>1. ReadTo(f, 0)
      <4>1. 0..0 = {0} /\ \A n \in 0..0 : Step(f, n) = Unread
        OBVIOUS
      <4> HIDE DEF Step
      <4> QED BY <4>1
    <3> HIDE DEF ReadTo, f
    <3> QED BY <2>2, <2>3, <3>1
  <2>4. CASE m # 0
    <3>1. m - 1 \in Nat /\ m - 1 <= N /\ ~(m <= m - 1)
      BY <2>2, <2>4
    <3>7. m - 1 \notin bad
      <4> HIDE DEF bad
      <4> QED BY <2>1, <3>1
    <3>2. PICK f : ReadTo(f, m - 1)
      <4> HIDE DEF ReadTo
      <4> QED BY <3>1, <3>7
    <3>3. /\ DOMAIN f = 0..(m - 1)
          /\ \A n \in 0..(m - 1) : f[n] = Step(f, n)
      <4> HIDE DEF Step
      <4> QED BY <3>2
    <3> DEFINE g == [n \in 0..m |-> IF n = m THEN NextLine(parser, f[m - 1], doc[m]) ELSE f[n]]
    <3>4. ASSUME NEW n \in 0..m
          PROVE  (IF n = m THEN NextLine(parser, f[m - 1], doc[m]) ELSE f[n]) = Step(g, n)
      <4>1. CASE n = m
        <5>1. m - 1 \in 0..m /\ m - 1 # m
          BY <2>2, <2>4
        <5>2. g[m - 1] = f[m - 1]
          BY <5>1
        <5> HIDE DEF g
        <5> QED BY <2>4, <4>1, <5>2
      <4>2. CASE n # m
        <5>1. n \in 0..(m - 1) /\ (n # 0 => n - 1 \in 0..m /\ n - 1 # m)
          BY <2>2, <4>2
        <5>2. n # 0 => g[n - 1] = f[n - 1]
          BY <5>1
        <5> HIDE DEF g
        <5> QED BY <3>3, <4>2, <5>1, <5>2
      <4> QED BY <4>1, <4>2
    <3>5. ReadTo(g, m)
      <4>1. g = [n \in 0..m |-> IF n = m THEN NextLine(parser, f[m - 1], doc[m]) ELSE f[n]]
        OBVIOUS
      <4> HIDE DEF g, Step
      <4> QED BY <3>4, <4>1
    <3> HIDE DEF ReadTo, g
    <3> QED BY <2>2, <3>5
  <2> QED BY <2>3, <2>4
<1>2. \E f : ReadTo(f, N)
  <2> HIDE DEF ReadTo
  <2> QED BY <1>1
<1> DEFINE after == CHOOSE f : ReadTo(f, N)
<1>3. after = [n \in 0..N |-> Step(after, n)]
  <2>1. ReadTo(after, N)
    <3> HIDE DEF ReadTo
    <3> QED BY <1>2
  <2> HIDE DEF after, Step
  <2> QED BY <2>1
<1>4. ReadLines(parser, doc) = after[N]
  BY DEF ReadLines
<1> HIDE DEF after
<1>5. 0 \in 0..N /\ \A n \in 1..N : n \in 0..N /\ n # 0
  OBVIOUS
<1>6. after[0] = Unread /\ \A n \in 1..N : after[n] = NextLine(parser, after[n - 1], doc[n])
  BY <1>3, <1>5
<1> QED BY <1>4, <1>6

LEMMA UnreadIsProgress == IsProgress(Unread) /\ OpenIsObject(Unread)
<1>1. AreSchemas(<<>>)
  <2>1. <<>> \in Seq({}) /\ DOMAIN <<>> = {}
    OBVIOUS
  <2> QED BY <2>1 DEF AreSchemas, IsList
<1>2. PICK b : b = FALSE
  OBVIOUS
<1>3. Unread = Progress(<<>>, NoSchema, NoText, b, b)
  BY <1>2 DEF Unread, Progress
<1>4. Unread.current = NoSchema
  BY DEF Unread
<1> QED BY <1>1, <1>3, <1>4, ProgressIs DEF OpenIsObject

(* Whatever the lines are, the parsers make schemas of them. *)
LEMMA ReadLinesKeeps ==
  ASSUME NEW parser, NEW doc, Len(doc) \in Nat
  PROVE  IsProgress(ReadLines(parser, doc))
<1>0. PICK N : N = Len(doc)
  OBVIOUS
<1>1. PICK after : /\ ReadLines(parser, doc) = after[N]
                   /\ after[0] = Unread
                   /\ \A n \in 1..N : after[n] = NextLine(parser, after[n - 1], doc[n])
  <2>1. \E after : /\ ReadLines(parser, doc) = after[Len(doc)]
                   /\ after[0] = Unread
                   /\ \A n \in 1..Len(doc) : after[n] = NextLine(parser, after[n - 1], doc[n])
    BY DocumentIsRead
  <2> QED BY <1>0, <2>1
<1> DEFINE Good(p) == IsProgress(p) /\ (parser = "yaml" \/ OpenIsObject(p))
           bad == {n \in 0..N : ~Good(after[n])}
<1>2. N \in Nat
  BY <1>0
<1>3. bad = {}
  <2> SUFFICES ASSUME bad # {} PROVE FALSE
    OBVIOUS
  <2>1. bad \subseteq Nat
    BY <1>2
  <2>2. PICK n \in bad : \A m \in bad : n <= m
    <3> HIDE DEF bad
    <3> QED BY <2>1, FirstExists
  <2>3. n \in 0..N /\ ~Good(after[n])
    OBVIOUS
  <2>4. n # 0
    BY <1>1, <2>3, UnreadIsProgress
  <2>5. n - 1 \in 0..N /\ ~(n <= n - 1) /\ n \in 1..N
    BY <1>2, <2>3, <2>4
  <2>6. Good(after[n - 1])
    <3>1. n - 1 \notin bad
      <4> HIDE DEF bad
      <4> QED BY <2>2, <2>5
    <3> HIDE DEF Good
    <3> QED BY <2>5, <3>1
  <2>7. after[n] = NextLine(parser, after[n - 1], doc[n])
    BY <1>1, <2>5
  <2> QED BY <2>3, <2>6, <2>7, NextLineKeeps
<1>4. N \in 0..N
  BY <1>2
<1> QED BY <1>1, <1>3, <1>4

LEMMA DocumentsMakeSchemas ==
  ASSUME NEW lang, NEW doc, Len(doc) \in Nat
  PROVE  AreSchemas(Parse(lang, doc).schemas)
<1>1. \A parser : /\ AreSchemas(ReadLines(parser, doc).schemas)
                  /\ AreSchemas(Finished(ReadLines(parser, doc)))
  BY ReadLinesKeeps, ProgressHas
<1>2. AreSchemas(<<>>)
  <2>1. <<>> \in Seq({}) /\ DOMAIN <<>> = {}
    OBVIOUS
  <2> QED BY <2>1 DEF AreSchemas, IsList
<1>3. AreSchemas(ParseCapnProto(doc))
  <2> DEFINE enums == ReadLines("enum", doc).schemas
             made == [i \in DOMAIN enums |-> EnumSchema(enums[i])]
  <2>1. AreSchemas(enums)
    BY <1>1
  <2>2. PICK S : enums \in Seq(S)
    BY <2>1 DEF AreSchemas, IsList
  <2>3. DOMAIN enums = 1..Len(enums) /\ Len(enums) \in Nat
    BY <2>2
  <2> HIDE DEF enums
  <2>4. \A i \in DOMAIN enums : IsSchema(EnumSchema(enums[i]))
    <3>1. \A f : IsList(<<f>>)
      <4>1. \A f : <<f>> \in Seq({f})
        OBVIOUS
      <4> QED BY <4>1 DEF IsList
    <3> QED BY <3>1 DEF EnumSchema, IsSchema, IsObject
  <2>5. IsList(made)
    <3> DEFINE T == {EnumSchema(enums[i]) : i \in DOMAIN enums}
    <3>1. made \in [1..Len(enums) -> T]
      BY <2>3
    <3>2. made \in Seq(T)
      <4> HIDE DEF made, T
      <4> QED BY <2>3, <3>1
    <3> HIDE DEF made, T
    <3> QED BY <3>2 DEF IsList
  <2>6. AreSchemas(made)
    BY <2>4, <2>5 DEF AreSchemas
  <2>7. ParseCapnProto(doc) = ReadLines("struct", doc).schemas \o made
    BY DEF ParseCapnProto, enums
  <2> HIDE DEF made
  <2> QED BY <1>1, <2>6, <2>7, SchemasJoin
<1>4. CASE lang = "capnp"
  <2>1. Parse(lang, doc).schemas =
          IF \E i \in DOMAIN doc : doc[i].is = "Id" THEN ParseCapnProto(doc) ELSE <<>>
    BY <1>4 DEF Parse
  <2> QED BY <1>2, <1>3, <2>1
<1>5. CASE lang # "capnp" /\ IsCStyle(doc)
  <2>1. Parse(lang, doc).schemas = ParseCStyle(doc)
    BY <1>5 DEF Parse
  <2> QED BY <1>1, <2>1 DEF ParseCStyle
<1>6. CASE lang # "capnp" /\ ~IsCStyle(doc)
  <2>1. Parse(lang, doc).schemas = Finished(ReadLines("yaml", doc))
    BY <1>6 DEF Parse, ParseYAMLStyle
  <2> QED BY <1>1, <2>1
<1> QED BY <1>4, <1>5, <1>6

(***************************************************************************)
(* TopologicalSort                                                         *)
(***************************************************************************)
LEMMA SurjectionOnImage ==
  ASSUME NEW S, NEW f, f = [x \in S |-> f[x]], IsFiniteSet(S)
  PROVE  /\ IsFiniteSet({f[x] : x \in S})
         /\ Cardinality({f[x] : x \in S}) <= Cardinality(S)
<1> DEFINE T == {f[x] : x \in S}
<1>1. f \in [S -> T] /\ \A t \in T : \E x \in S : f[x] = t
  OBVIOUS
<1>2. f \in Surjection(S, T)
  <2> HIDE DEF T
  <2> QED BY <1>1 DEF Surjection
<1> HIDE DEF T
<1>3. IsFiniteSet(T) /\ Cardinality(T) <= Cardinality(S)
  BY <1>2, FS_Surjection
<1> QED BY <1>3 DEF T

(* What a schema refers to can be counted. *)
LEMMA DependenciesAreFinite ==
  ASSUME NEW s, IsSchema(s)
  PROVE  IsFiniteSet(Dependencies(s))
<1>1. CASE s.kind = "Object"
  <2>1. PICK name, fields : IsList(fields) /\ s = ObjectSchema(name, fields)
    BY <1>1, KindTells DEF IsObject
  <2>2. s.fields = fields
    BY <2>1 DEF ObjectSchema
  <2>3. PICK n \in Nat : DOMAIN fields = 1..n
    <3>1. PICK S : fields \in Seq(S)
      BY <2>1 DEF IsList
    <3>2. DOMAIN fields = 1..Len(fields) /\ Len(fields) \in Nat
      BY <3>1
    <3> QED BY <3>2
  <2> DEFINE refs == {i \in DOMAIN s.fields : /\ s.fields[i].type = "Reference"
                                              /\ s.fields[i].ref # NoText /\ ~s.fields[i].list}
             f == [i \in refs |-> [at |-> i, on |-> s.fields[i].ref]]
  <2>4. Dependencies(s) = {[at |-> i, on |-> s.fields[i].ref] : i \in refs}
    BY <1>1 DEF Dependencies
  <2>5. refs \in SUBSET (1..n)
    BY <2>2, <2>3
  <2>6. Dependencies(s) = {f[i] : i \in refs}
    BY <2>4
  <2> HIDE DEF refs
  <2>7. IsFiniteSet(1..n)
    BY FS_Interval
  <2>8. IsFiniteSet(refs)
    BY <2>5, <2>7, FS_Subset
  <2>9. f = [i \in refs |-> f[i]]
    OBVIOUS
  <2> HIDE DEF f
  <2>10. IsFiniteSet({f[i] : i \in refs})
    BY <2>8, <2>9, SurjectionOnImage
  <2> QED BY <2>6, <2>10
<1>2. CASE s.kind \in {"Set", "List"}
  <2> DEFINE dep == [at |-> 1, on |-> s.elementType]
  <2>1. Dependencies(s) = {d \in {dep} : IsReference(d.on)}
    BY <1>2 DEF Dependencies
  <2> HIDE DEF dep
  <2>2. Dependencies(s) \in SUBSET {dep}
    BY <2>1
  <2> QED BY <2>2, FS_Singleton, FS_Subset
<1>3. CASE s.kind = "Map"
  <2> DEFINE key == [at |-> 1, on |-> s.keyType]
             value == [at |-> 2, on |-> s.valueType]
  <2>1. Dependencies(s) = {d \in {key, value} : IsReference(d.on)}
    BY <1>3 DEF Dependencies
  <2> HIDE DEF key, value
  <2>2. Dependencies(s) \in SUBSET ({key} \cup {value})
    BY <2>1
  <2>3. IsFiniteSet({key} \cup {value})
    BY FS_Singleton, FS_AddElement
  <2> QED BY <2>2, <2>3, FS_Subset
<1> QED BY <1>1, <1>2, <1>3, KindTells, NoSchemaIsNone

(* The last of a list of schemas that has a name. *)
LEMMA LastFieldIs ==
  ASSUME NEW list, NEW name, IsList(list), \E i \in DOMAIN list : list[i].name = name
  PROVE  \E i \in DOMAIN list : LastField(list, name) = list[i] /\ list[i].name = name
<1> DEFINE T == {i \in DOMAIN list : list[i].name = name}
<1>1. PICK n \in Nat : DOMAIN list = 1..n
  BY ListGrows
<1>2. T \subseteq 0..n /\ T # {}
  BY <1>1
<1>3. LastField(list, name) = list[Max(T)]
  BY DEF LastField
<1>4. Max(T) = CHOOSE x \in T : \A y \in T : x >= y
  BY DEF Max
<1>5. T \subseteq Int
  BY <1>2
<1> HIDE DEF T
<1>6. \E x \in T : \A y \in T : x >= y
  <2>1. PICK x \in T : \A y \in T : y <= x
    BY <1>2, LastExists
  <2> QED BY <1>5, <2>1
<1>7. Max(T) \in T
  BY <1>4, <1>6
<1> QED BY <1>3, <1>7 DEF T

LEMMA NamedIs ==
  ASSUME AreSchemas(schemas), NEW name \in Names
  PROVE  /\ Named(name).name = name /\ IsSchema(Named(name))
         /\ IsFiniteSet(Dependencies(Named(name)))
<1>1. IsList(schemas) /\ \E i \in DOMAIN schemas : schemas[i].name = name
  BY DEF AreSchemas, Names
<1>2. PICK i \in DOMAIN schemas : Named(name) = schemas[i] /\ schemas[i].name = name
  BY <1>1, LastFieldIs DEF Named
<1>3. IsSchema(Named(name))
  BY <1>2 DEF AreSchemas
<1> QED BY <1>2, <1>3, DependenciesAreFinite

LEMMA NamesAreFinite ==
  ASSUME AreSchemas(schemas)
  PROVE  IsFiniteSet(Names) /\ Cardinality(Names) <= Len(schemas) /\ Len(schemas) \in Nat
<1>1. PICK n \in Nat : DOMAIN schemas = 1..n /\ n = Len(schemas)
  BY ListGrows DEF AreSchemas
<1> DEFINE f == [i \in 1..n |-> schemas[i].name]
<1>2. Names = {f[i] : i \in 1..n}
  BY <1>1 DEF Names
<1>3. f = [i \in 1..n |-> f[i]]
  OBVIOUS
<1> HIDE DEF f
<1>4. IsFiniteSet(1..n) /\ Cardinality(1..n) = n
  BY FS_Interval
<1>5. IsFiniteSet({f[i] : i \in 1..n}) /\ Cardinality({f[i] : i \in 1..n}) <= Cardinality(1..n)
  BY <1>3, <1>4, SurjectionOnImage
<1> QED BY <1>1, <1>2, <1>4, <1>5

(* A queue that is filled with a set holds each of its members once. *)
LEMMA QueuedIs ==
  ASSUME NEW ready, IsFiniteSet(ready), NEW q \in Queued(ready)
  PROVE  /\ q \in Seq(ready) /\ Len(q) \in Nat /\ DOMAIN q = 1..Len(q)
         /\ \A i, j \in DOMAIN q : q[i] = q[j] => i = j
         /\ \A x \in ready : \E i \in DOMAIN q : q[i] = x
<1> DEFINE n == Cardinality(ready)
<1>1. n \in Nat
  BY FS_CardinalityType
<1>2. q \in [1..n -> ready] /\ \A i, j \in 1..n : q[i] = q[j] => i = j
  <2>1. q \in [1..n -> ready] /\ IsInjective(q)
    BY DEF Queued
  <2> HIDE DEF n
  <2>2. DOMAIN q = 1..n
    BY <2>1
  <2> QED BY <2>1, <2>2 DEF IsInjective
<1>3. IsFiniteSet(1..n) /\ Cardinality(1..n) = n
  BY <1>1, FS_Interval
<1> HIDE DEF n
<1> DEFINE T == {q[i] : i \in 1..n}
<1>4. q \in Surjection(1..n, T) /\ q \in Injection(1..n, T)
  <2>1. q \in [1..n -> T] /\ \A t \in T : \E i \in 1..n : q[i] = t
    BY <1>2
  <2> HIDE DEF T
  <2> QED BY <1>2, <2>1 DEF Surjection, Injection, IsInjective
<1>5. T \in SUBSET ready
  BY <1>2
<1> HIDE DEF T
<1>6. Cardinality(T) = n
  BY <1>3, <1>4, FS_Surjection
<1>7. T = ready
  BY <1>5, <1>6, FS_Subset DEF n
<1>8. q \in Seq(ready) /\ Len(q) = n /\ DOMAIN q = 1..n
  BY <1>1, <1>2
<1> QED BY <1>1, <1>2, <1>7, <1>8 DEF T

Done == {result[i].name : i \in DOMAIN result}
Waiting == {queue[i] : i \in DOMAIN queue}

(* What a type still waits for. *)
Missing(name, done) == {d \in Dependencies(Named(name)) : d.on \in Names \ done}

(* The types of the result and of the queue, each there once, are those    *)
(* that wait for nothing; inDegree counts what the others wait for; and    *)
(* what a type of the result refers to comes before it.                    *)
SortInv ==
  /\ IsList(result) /\ IsList(queue)
  /\ \A i \in DOMAIN result : result[i].name \in Names /\ result[i] = Named(result[i].name)
  /\ \A i, j \in DOMAIN result : result[i].name = result[j].name => i = j
  /\ Waiting \subseteq Names \ Done
  /\ \A i, j \in DOMAIN queue : queue[i] = queue[j] => i = j
  /\ inDegree = [name \in Names |-> Cardinality(Missing(name, Done))]
  /\ \A name \in Names : name \in Done \cup Waiting <=> inDegree[name] = 0
  /\ \A i \in DOMAIN result : \A d \in Dependencies(result[i]) :
       d.on \in Names => \E j \in DOMAIN result : j < i /\ result[j].name = d.on

CompilerInv ==
  /\ IsList(lines)
  /\ AreSchemas(schemas)
  /\ stage \in {"reading", "parsed"} => result = <<>>
  /\ stage \in {"sorting", "sorted", "circular"} => SortInv
  /\ SortIsCorrect

LEMMA MissingIsCounted ==
  ASSUME AreSchemas(schemas), NEW name \in Names, NEW done
  PROVE  /\ IsFiniteSet(Missing(name, done)) /\ Cardinality(Missing(name, done)) \in Nat
         /\ Cardinality(Missing(name, done)) = 0 <=> Missing(name, done) = {}
<1>1. IsFiniteSet(Dependencies(Named(name)))
  BY NamedIs
<1>2. Missing(name, done) \in SUBSET Dependencies(Named(name))
  BY DEF Missing
<1>3. IsFiniteSet(Missing(name, done))
  BY <1>1, <1>2, FS_Subset
<1> QED BY <1>3, FS_CardinalityType, FS_EmptySet

LEMMA ReferencesCount ==
  ASSUME AreSchemas(schemas), NEW name \in Names, NEW dep
  PROVE  /\ References(name, dep) \in Nat
         /\ References(name, dep) = 0 <=> {d \in Dependencies(Named(name)) : d.on = dep} = {}
<1> DEFINE D == {d \in Dependencies(Named(name)) : d.on = dep}
<1>1. D \in SUBSET Dependencies(Named(name))
  OBVIOUS
<1>2. References(name, dep) = Cardinality(D)
  BY DEF References
<1> HIDE DEF D
<1>3. IsFiniteSet(D)
  BY <1>1, NamedIs, FS_Subset
<1>4. Cardinality(D) \in Nat /\ (Cardinality(D) = 0 <=> D = {})
  BY <1>3, FS_CardinalityType, FS_EmptySet
<1> QED BY <1>2, <1>4 DEF D

(* One type more is done: what the others wait for is fewer by the         *)
(* references to it.                                                       *)
LEMMA MissingShrinks ==
  ASSUME AreSchemas(schemas), NEW name \in Names, NEW done, NEW current \in Names \ done
  PROVE  Cardinality(Missing(name, done \cup {current})) =
           Cardinality(Missing(name, done)) - References(name, current)
<1> DEFINE S == Missing(name, done)
           D == {d \in Dependencies(Named(name)) : d.on = current}
<1>1. Missing(name, done \cup {current}) = S \ D
  BY DEF Missing
<1>2. S \cap D = D
  BY DEF Missing
<1>3. IsFiniteSet(S)
  BY MissingIsCounted
<1>4. References(name, current) = Cardinality(D)
  BY DEF References
<1> HIDE DEF S, D
<1>5. Cardinality(S \ D) = Cardinality(S) - Cardinality(S \cap D)
  BY <1>3, FS_Difference
<1> QED BY <1>1, <1>2, <1>4, <1>5 DEF S

LEMMA CompilerInvInit == CompilerInit => CompilerInv
<1> SUFFICES ASSUME CompilerInit PROVE CompilerInv
  OBVIOUS
<1>1. /\ lines = <<>> /\ schemas = <<>> /\ result = <<>> /\ stage = "reading"
  BY DEF CompilerInit
<1>2. IsList(<<>>) /\ DOMAIN <<>> = {}
  <2>1. <<>> \in Seq({}) /\ DOMAIN <<>> = {}
    OBVIOUS
  <2> QED BY <2>1 DEF IsList
<1> QED BY <1>1, <1>2 DEF CompilerInv, AreSchemas, SortIsCorrect

(* The sort begins with the types that refer to no others. *)
LEMMA StartSortKeeps ==
  ASSUME CompilerInv, StartSort
  PROVE  CompilerInv'
<1> DEFINE ready == {name \in Names : InDegree[name] = 0}
<1>1. /\ stage = "parsed" /\ stage' = "sorting" /\ result = <<>> /\ result' = <<>>
      /\ inDegree' = InDegree /\ queue' \in Queued(ready)
      /\ lines' = lines /\ schemas' = schemas /\ AreSchemas(schemas) /\ IsList(lines)
  BY DEF StartSort, CompilerInv
<1>2. Names' = Names /\ \A name : Named(name)' = Named(name)
  BY <1>1 DEF Names, Named
<1>3. IsFiniteSet(ready)
  <2>1. ready \in SUBSET Names
    OBVIOUS
  <2> HIDE DEF ready
  <2> QED BY <1>1, <2>1, NamesAreFinite, FS_Subset
<1>4. DOMAIN <<>> = {} /\ IsList(<<>>)
  <2>1. <<>> \in Seq({}) /\ DOMAIN <<>> = {}
    OBVIOUS
  <2> QED BY <2>1 DEF IsList
<1>5. Done' = {}
  BY <1>1, <1>4 DEF Done
<1>6. \A name \in Names :
        /\ InDegree[name] = Cardinality(Missing(name, {}))
        /\ Missing(name, {})' = Missing(name, {})
  <2>1. \A name \in Names : Missing(name, {}) = {d \in Dependencies(Named(name)) : d.on \in Names}
    BY DEF Missing
  <2> QED BY <1>2, <2>1 DEF InDegree, Missing
<1>7. InDegree = [name \in Names |-> Cardinality(Missing(name, {}))]
  BY <1>6 DEF InDegree
<1> HIDE DEF ready
<1>8. /\ queue' \in Seq(ready)
      /\ \A i, j \in DOMAIN queue' : queue'[i] = queue'[j] => i = j
      /\ \A x \in ready : \E i \in DOMAIN queue' : queue'[i] = x
  BY <1>1, <1>3, QueuedIs
<1>9. Waiting' = ready
  <2>1. \A i \in DOMAIN queue' : queue'[i] \in ready
    BY <1>8
  <2> QED BY <1>8, <2>1 DEF Waiting
<1>10. SortInv'
  <2>1. IsList(result') /\ IsList(queue')
    BY <1>1, <1>4, <1>8 DEF IsList
  <2>2. DOMAIN result' = {}
    BY <1>1, <1>4
  <2>3. inDegree' = [name \in Names' |-> Cardinality(Missing(name, Done)')]
    <3>1. \A name \in Names : Missing(name, Done)' = Missing(name, {})
      BY <1>2, <1>5 DEF Missing
    <3> QED BY <1>1, <1>2, <1>7, <3>1
  <2>4. \A name \in Names' : name \in Done' \cup Waiting' <=> inDegree'[name] = 0
    BY <1>1, <1>2, <1>5, <1>9 DEF ready
  <2>5. Waiting' \subseteq Names' \ Done'
    BY <1>2, <1>5, <1>9 DEF ready
  <2> QED BY <1>8, <2>1, <2>2, <2>3, <2>4, <2>5 DEF SortInv
<1>11. SortIsCorrect'
  BY <1>1 DEF SortIsCorrect
<1> QED BY <1>1, <1>10, <1>11 DEF CompilerInv

(* The head of a list, and what is left. *)
LEMMA HeadAndTail ==
  ASSUME NEW list, IsList(list), list # <<>>
  PROVE  /\ IsList(Tail(list)) /\ 1 \in DOMAIN list /\ Head(list) = list[1]
         /\ Len(list) \in Nat /\ DOMAIN list = 1..Len(list)
         /\ DOMAIN Tail(list) = 1..(Len(list) - 1)
         /\ \A i \in DOMAIN Tail(list) : Tail(list)[i] = list[i + 1]
<1>1. PICK S : list \in Seq(S)
  BY DEF IsList
<1>2. PICK n \in Nat : n = Len(list) /\ n # 0
  BY <1>1
<1>3. Tail(list) \in Seq(S) /\ Len(Tail(list)) = n - 1
  BY <1>1, <1>2
<1> QED BY <1>1, <1>2, <1>3 DEF IsList

LEMMA ListsJoin ==
  ASSUME NEW a, NEW b, IsList(a), IsList(b)
  PROVE  /\ IsList(a \o b) /\ Len(a) \in Nat /\ Len(b) \in Nat
         /\ DOMAIN a = 1..Len(a) /\ DOMAIN b = 1..Len(b)
         /\ DOMAIN (a \o b) = 1..(Len(a) + Len(b))
         /\ \A i \in 1..(Len(a) + Len(b)) :
              (a \o b)[i] = IF i <= Len(a) THEN a[i] ELSE b[i - Len(a)]
<1>1. PICK S, T : a \in Seq(S) /\ b \in Seq(T)
  BY DEF IsList
<1>2. a \in Seq(S \cup T) /\ b \in Seq(S \cup T)
  BY <1>1
<1>3. a \o b \in Seq(S \cup T)
  BY <1>2
<1>4. IsList(a \o b)
  BY <1>3 DEF IsList
<1> QED BY <1>2, <1>4

(* Two lists without a common member, of different members each. *)
LEMMA DistinctJoin ==
  ASSUME NEW a, NEW b, IsList(a), IsList(b),
         \A i, j \in DOMAIN a : a[i] = a[j] => i = j,
         \A i, j \in DOMAIN b : b[i] = b[j] => i = j,
         \A i \in DOMAIN a, j \in DOMAIN b : a[i] # b[j]
  PROVE  /\ \A i, j \in DOMAIN (a \o b) : (a \o b)[i] = (a \o b)[j] => i = j
         /\ {(a \o b)[i] : i \in DOMAIN (a \o b)} =
              {a[i] : i \in DOMAIN a} \cup {b[i] : i \in DOMAIN b}
<1>0. PICK m, n, c : m = Len(a) /\ n = Len(b) /\ c = a \o b
  OBVIOUS
<1>1. /\ m \in Nat /\ n \in Nat
      /\ DOMAIN a = 1..m /\ DOMAIN b = 1..n /\ DOMAIN c = 1..(m + n)
      /\ \A i \in 1..(m + n) : c[i] = IF i <= m THEN a[i] ELSE b[i - m]
  BY <1>0, ListsJoin
<1>2. \A i \in 1..(m + n) : IF i <= m THEN i \in 1..m ELSE i - m \in 1..n
  BY <1>1
<1>3. ASSUME NEW i \in 1..(m + n), NEW j \in 1..(m + n), c[i] = c[j] PROVE i = j
  <2>1. i <= m => i \in 1..m /\ c[i] = a[i]
    BY <1>1, <1>2
  <2>2. ~(i <= m) => i - m \in 1..n /\ c[i] = b[i - m]
    BY <1>1, <1>2
  <2>3. j <= m => j \in 1..m /\ c[j] = a[j]
    BY <1>1, <1>2
  <2>4. ~(j <= m) => j - m \in 1..n /\ c[j] = b[j - m]
    BY <1>1, <1>2
  <2>5. CASE i <= m /\ j <= m
    BY <1>1, <1>3, <2>1, <2>3, <2>5
  <2>6. CASE ~(i <= m) /\ ~(j <= m)
    <3>1. i - m = j - m
      BY <1>1, <1>3, <2>2, <2>4, <2>6
    <3> QED BY <1>1, <3>1
  <2> QED BY <1>1, <1>3, <2>1, <2>2, <2>3, <2>4, <2>5, <2>6
<1>4. \A i \in 1..m : i \in 1..(m + n) /\ c[i] = a[i]
  BY <1>1
<1>5. \A i \in 1..n : i + m \in 1..(m + n) /\ c[i + m] = b[i]
  <2>1. \A i \in 1..n : i + m \in 1..(m + n) /\ ~(i + m <= m) /\ (i + m) - m = i
    BY <1>1
  <2> QED BY <1>1, <2>1
<1>6. \A i \in 1..(m + n) : \/ i \in 1..m /\ c[i] = a[i]
                            \/ i - m \in 1..n /\ c[i] = b[i - m]
  BY <1>1, <1>2
<1>7. {c[i] : i \in 1..(m + n)} = {a[i] : i \in 1..m} \cup {b[i] : i \in 1..n}
  BY <1>4, <1>5, <1>6
<1>8. \A i, j \in DOMAIN c : c[i] = c[j] => i = j
  BY <1>1, <1>3
<1>9. {c[i] : i \in DOMAIN c} = {a[i] : i \in DOMAIN a} \cup {b[i] : i \in DOMAIN b}
  BY <1>1, <1>7
<1>10. c = a \o b
  BY <1>0
<1> QED BY ONLY <1>8, <1>9, <1>10, Zenon

(* The types that waited for the first of the queue alone come to its end. *)
LEMMA DequeueKeeps ==
  ASSUME CompilerInv, Dequeue
  PROVE  CompilerInv'
<1> DEFINE current == Head(queue)
           ready == {name \in Names : References(name, current) > 0 /\ inDegree'[name] = 0}
<1>1. /\ stage = "sorting" /\ stage' = "sorting" /\ queue # <<>>
      /\ result' = Append(result, Named(current))
      /\ inDegree' = [name \in Names |-> inDegree[name] - References(name, current)]
      /\ lines' = lines /\ schemas' = schemas /\ AreSchemas(schemas) /\ IsList(lines)
      /\ SortInv
  BY DEF Dequeue, CompilerInv
<1>2. PICK q : q \in Queued(ready) /\ queue' = Tail(queue) \o q
  <2>1. {name \in {n \in Names : References(n, current) > 0} : inDegree'[name] = 0} = ready
    OBVIOUS
  <2> QED BY <2>1 DEF Dequeue
<1>3. Names' = Names /\ \A name : Named(name)' = Named(name)
  BY <1>1 DEF Names, Named
<1>4. IsFiniteSet(ready) /\ ready \subseteq Names
  <2>1. ready \in SUBSET Names
    OBVIOUS
  <2> HIDE DEF ready
  <2> QED BY <1>1, <2>1, NamesAreFinite, FS_Subset
<1>5. /\ \A name \in ready : References(name, current) > 0 /\ inDegree'[name] = 0
      /\ \A name \in Names : References(name, current) > 0 /\ inDegree'[name] = 0 => name \in ready
  OBVIOUS
<1> HIDE DEF ready
<1>6. /\ IsList(Tail(queue)) /\ 1 \in DOMAIN queue /\ current = queue[1]
      /\ Len(queue) \in Nat /\ DOMAIN queue = 1..Len(queue)
      /\ DOMAIN Tail(queue) = 1..(Len(queue) - 1)
      /\ \A i \in DOMAIN Tail(queue) : Tail(queue)[i] = queue[i + 1]
  BY <1>1, HeadAndTail DEF SortInv
<1>7. current \in Names /\ current \notin Done /\ current \in Waiting
  BY <1>1, <1>6 DEF SortInv, Waiting
<1> HIDE DEF current
<1>8. /\ IsList(q) /\ \A i, j \in DOMAIN q : q[i] = q[j] => i = j
      /\ {q[i] : i \in DOMAIN q} = ready
  <2>1. /\ q \in Seq(ready) /\ \A i, j \in DOMAIN q : q[i] = q[j] => i = j
        /\ \A x \in ready : \E i \in DOMAIN q : q[i] = x
    BY <1>2, <1>4, QueuedIs
  <2>2. \A i \in DOMAIN q : q[i] \in ready
    BY <2>1
  <2> QED BY <2>1, <2>2 DEF IsList
<1>9. /\ \A i, j \in DOMAIN Tail(queue) : Tail(queue)[i] = Tail(queue)[j] => i = j
      /\ {Tail(queue)[i] : i \in DOMAIN Tail(queue)} = Waiting \ {current}
  <2> DEFINE T == Tail(queue)
  <2>0. PICK n \in Nat : n = Len(queue) /\ 1 <= n
    <3>1. Len(queue) \in Nat /\ 1 <= Len(queue)
      BY <1>6
    <3> QED BY <3>1, Zenon
  <2>1. /\ DOMAIN queue = 1..n /\ DOMAIN T = 1..(n - 1)
        /\ \A i \in 1..(n - 1) : T[i] = queue[i + 1]
        /\ \A i, j \in 1..n : queue[i] = queue[j] => i = j
    BY <1>1, <1>6, <2>0 DEF SortInv
  <2> HIDE DEF T
  <2>2. \A i \in 1..(n - 1) : i + 1 \in 1..n /\ i + 1 # 1
    BY <2>0
  <2>3. ASSUME NEW i \in 1..(n - 1), NEW j \in 1..(n - 1), T[i] = T[j] PROVE i = j
    <3>1. i + 1 = j + 1
      BY <2>1, <2>2, <2>3
    <3> QED BY <3>1
  <2>4. ASSUME NEW i \in 1..(n - 1) PROVE T[i] \in Waiting \ {current}
    <3>1. T[i] = queue[i + 1] /\ i + 1 \in 1..n /\ i + 1 # 1 /\ 1 \in 1..n
      BY <2>0, <2>1, <2>2
    <3>2. queue[i + 1] # queue[1]
      BY <2>1, <3>1
    <3> QED BY <1>6, <2>1, <3>1, <3>2 DEF Waiting
  <2>5. ASSUME NEW x \in Waiting \ {current} PROVE \E i \in 1..(n - 1) : T[i] = x
    <3>1. PICK i \in 1..n : queue[i] = x
      BY <2>1 DEF Waiting
    <3>2. i # 1
      BY <1>6, <3>1
    <3>3. i - 1 \in 1..(n - 1) /\ (i - 1) + 1 = i
      BY <2>0, <3>2
    <3>4. T[i - 1] = queue[i]
      BY <2>1, <3>3
    <3> QED BY <3>1, <3>3, <3>4
  <2>6. {T[i] : i \in 1..(n - 1)} = Waiting \ {current}
    BY <2>4, <2>5
  <2> QED BY <2>1, <2>3, <2>6 DEF T
<1>10. ASSUME NEW name \in Names
       PROVE  /\ inDegree[name] \in Nat /\ inDegree'[name] \in Nat
              /\ References(name, current) \in Nat
              /\ inDegree'[name] = inDegree[name] - References(name, current)
              /\ inDegree[name] = Cardinality(Missing(name, Done))
              /\ inDegree'[name] = Cardinality(Missing(name, Done \cup {current}))
  <2>1. current \in Names \ Done
    BY <1>7
  <2>2. References(name, current) \in Nat
    BY <1>1, ReferencesCount
  <2>3. /\ Cardinality(Missing(name, Done)) \in Nat
        /\ Cardinality(Missing(name, Done \cup {current})) \in Nat
    BY <1>1, MissingIsCounted
  <2>4. Cardinality(Missing(name, Done \cup {current})) =
          Cardinality(Missing(name, Done)) - References(name, current)
    BY <1>1, <2>1, MissingShrinks
  <2>5. inDegree[name] = Cardinality(Missing(name, Done)) /\
        (name \in Done \cup Waiting <=> inDegree[name] = 0)
    BY <1>1 DEF SortInv
  <2>6. inDegree'[name] = inDegree[name] - References(name, current)
    BY <1>1
  <2> QED BY <2>2, <2>3, <2>4, <2>5, <2>6
<1>26. \A name \in Names : name \in Done \cup Waiting <=> inDegree[name] = 0
  BY <1>1 DEF SortInv
<1>11. \A name \in ready : name \notin Done \cup Waiting
  <2> TAKE name \in ready
  <2>1. name \in Names /\ References(name, current) > 0 /\ inDegree'[name] = 0
    BY <1>4, <1>5
  <2>2. inDegree[name] # 0
    BY <1>10, <2>1
  <2> QED BY <1>26, <2>1, <2>2
<1>12. Waiting' = (Waiting \ {current}) \cup ready /\ IsList(queue') /\
       \A i, j \in DOMAIN queue' : queue'[i] = queue'[j] => i = j
  <2>1. \A i \in DOMAIN Tail(queue), j \in DOMAIN q : Tail(queue)[i] # q[j]
    <3>1. ASSUME NEW i \in DOMAIN Tail(queue), NEW j \in DOMAIN q PROVE Tail(queue)[i] # q[j]
      <4>1. Tail(queue)[i] \in Waiting
        BY <1>9
      <4>2. q[j] \in ready
        BY <1>8
      <4> QED BY <1>11, <4>1, <4>2
    <3> QED BY <3>1
  <2>2. PICK rest, both : rest = Tail(queue) /\ both = rest \o q
    OBVIOUS
  <2>7. /\ IsList(rest) /\ \A i, j \in DOMAIN rest : rest[i] = rest[j] => i = j
        /\ \A i \in DOMAIN rest, j \in DOMAIN q : rest[i] # q[j]
        /\ {rest[i] : i \in DOMAIN rest} = Waiting \ {current}
    BY <1>6, <1>9, <2>1, <2>2
  <2>3. /\ \A i, j \in DOMAIN (rest \o q) : (rest \o q)[i] = (rest \o q)[j] => i = j
        /\ {(rest \o q)[i] : i \in DOMAIN (rest \o q)} =
             {rest[i] : i \in DOMAIN rest} \cup {q[i] : i \in DOMAIN q}
    BY <1>8, <2>7, DistinctJoin
  <2>4. IsList(rest \o q)
    BY <1>8, <2>7, ListsJoin
  <2>5. queue' = both
    BY <1>2, <2>2
  <2>6. Waiting' = {both[i] : i \in DOMAIN both}
    BY <2>5 DEF Waiting
  <2>8. Waiting' = (Waiting \ {current}) \cup ready
    <3> DEFINE Set(f) == {f[i] : i \in DOMAIN f}
    <3>1. Set(rest \o q) = Set(rest) \cup Set(q) /\ Set(rest) = Waiting \ {current}
          /\ Set(q) = ready /\ Waiting' = Set(both)
      BY <1>8, <2>3, <2>6, <2>7
    <3> HIDE DEF Set
    <3>2. Set(both) = Set(rest \o q)
      BY <2>2
    <3> QED BY <3>1, <3>2
  <2>9. IsList(queue') /\ \A i, j \in DOMAIN queue' : queue'[i] = queue'[j] => i = j
    BY <2>2, <2>3, <2>4, <2>5
  <2> QED BY <2>8, <2>9

<1>0. IsList(result)
  BY <1>1 DEF SortInv
<1>13. PICK n : n = Len(result)
  OBVIOUS
<1>14. /\ n \in Nat /\ DOMAIN result = 1..n /\ DOMAIN result' = 1..(n + 1) /\ IsList(result')
       /\ \A i \in 1..n : i \in 1..(n + 1) /\ i # n + 1 /\ i < n + 1 /\ result'[i] = result[i]
       /\ n + 1 \in 1..(n + 1) /\ result'[n + 1] = Named(current)
       /\ \A i \in 1..(n + 1) : i \in 1..n \/ i = n + 1
  <2>1. PICK e : e = Named(current)
    OBVIOUS
  <2>2. /\ n \in Nat /\ DOMAIN result = 1..n /\ DOMAIN result' = 1..(n + 1) /\ IsList(result')
        /\ \A i \in 1..n : result'[i] = result[i]
        /\ result'[n + 1] = e
    BY <1>0, <1>1, <1>13, <2>1, ListGrows
  <2> QED BY <2>1, <2>2
<1>15. Named(current).name = current
  BY <1>1, <1>7, NamedIs
<1>16. Done' = Done \cup {current}
  <2>1. Done' = {result'[i].name : i \in 1..(n + 1)} /\ Done = {result[i].name : i \in 1..n}
    BY <1>14 DEF Done
  <2>2. \A i \in 1..n : result'[i].name = result[i].name
    BY <1>14
  <2>3. result'[n + 1].name = current
    BY <1>14, <1>15
  <2> QED BY <1>14, <2>1, <2>2, <2>3
<1>17. \A name \in Names : Missing(name, Done)' = Missing(name, Done \cup {current})
  BY <1>3, <1>16 DEF Missing
<1>18. inDegree' = [name \in Names' |-> Cardinality(Missing(name, Done)')]
  <2>1. inDegree' = [name \in Names |-> inDegree'[name]]
    BY <1>1
  <2>2. \A name \in Names : inDegree'[name] = Cardinality(Missing(name, Done)')
    BY <1>17, <1>10
  <2> QED BY <1>3, <2>1, <2>2
<1>19. Waiting' \subseteq Names' \ Done'
  BY <1>1, <1>3, <1>4, <1>7, <1>11, <1>12, <1>16 DEF SortInv
<1>20. \A name \in Names' : name \in Done' \cup Waiting' <=> inDegree'[name] = 0
  <2> SUFFICES ASSUME NEW name \in Names
               PROVE  name \in Done' \cup Waiting' <=> inDegree'[name] = 0
    BY <1>3
  <2>1. name \in Done' \cup Waiting' <=> name \in Done \cup Waiting \cup ready
    BY <1>7, <1>12, <1>16
  <2>2. CASE name \in Done \cup Waiting
    <3>0. inDegree[name] = 0
      BY <1>26, <2>2
    <3>1. inDegree'[name] = 0
      BY <1>10, <3>0
    <3> QED BY <2>1, <2>2, <3>1
  <2>3. CASE name \notin Done \cup Waiting
    <3>1. inDegree[name] # 0
      BY <1>26, <2>3
    <3>2. inDegree'[name] = 0 => References(name, current) > 0
      BY <1>10, <3>1
    <3> QED BY <1>5, <2>1, <2>3, <3>2
  <2> QED BY <2>2, <2>3
<1>21. \A i, j \in DOMAIN result' : result'[i].name = result'[j].name => i = j
  <2>1. \A i, j \in 1..n : result[i].name = result[j].name => i = j
    BY <1>1, <1>14 DEF SortInv
  <2>2. \A i \in 1..n : result[i].name # current
    BY <1>7, <1>14 DEF Done
  <2>3. \A i \in 1..n : result'[i].name = result[i].name
    BY <1>14
  <2>4. result'[n + 1].name = current
    BY <1>14, <1>15
  <2> QED BY <1>14, <2>1, <2>2, <2>3, <2>4
<1>22. (\A i \in DOMAIN result : result[i].name \in Names /\ result[i] = Named(result[i].name))'
  <2> SUFFICES ASSUME NEW i \in 1..(n + 1)
               PROVE  result'[i].name \in Names /\ result'[i] = Named(result'[i].name)
    BY <1>1, <1>3, <1>14 DEF Named
  <2>1. CASE i \in 1..n
    <3>1. result'[i] = result[i] /\ result[i].name \in Names /\ result[i] = Named(result[i].name)
      BY <1>1, <1>14, <2>1 DEF SortInv
    <3> QED BY <3>1
  <2>2. CASE i = n + 1
    BY <1>7, <1>14, <1>15, <2>2
  <2> QED BY <1>14, <2>1, <2>2
<1>23. \A i \in DOMAIN result' : \A d \in Dependencies(result'[i]) :
         d.on \in Names' => \E j \in DOMAIN result' : j < i /\ result'[j].name = d.on
  <2> SUFFICES ASSUME NEW i \in 1..(n + 1), NEW d \in Dependencies(result'[i]), d.on \in Names
               PROVE  \E j \in 1..(n + 1) : j < i /\ result'[j].name = d.on
    BY <1>3, <1>14
  <2>1. CASE i \in 1..n
    <3>1. d \in Dependencies(result[i])
      BY <1>14, <2>1
    <3>2. PICK j \in 1..n : j < i /\ result[j].name = d.on
      BY <1>1, <1>14, <2>1, <3>1 DEF SortInv
    <3> QED BY <1>14, <3>2
  <2>2. CASE i = n + 1
    <3>1. d \in Dependencies(Named(current))
      BY <1>14, <2>2
    <3>2. Missing(current, Done) = {}
      <4>0. inDegree[current] = 0
        BY <1>7, <1>26
      <4>1. Cardinality(Missing(current, Done)) = 0
        BY <1>7, <1>10, <4>0
      <4> QED BY <1>1, <1>7, <4>1, MissingIsCounted
    <3>3. d.on \in Done
      BY <3>1, <3>2 DEF Missing
    <3>4. PICK j \in 1..n : result[j].name = d.on
      BY <1>14, <3>3 DEF Done
    <3> QED BY <1>14, <2>2, <3>4
  <2> QED BY <1>14, <2>1, <2>2
<1>24. SortInv'
  BY <1>12, <1>14, <1>18, <1>19, <1>20, <1>21, <1>22, <1>23 DEF SortInv
<1>25. SortIsCorrect'
  BY <1>1 DEF SortIsCorrect
<1> QED BY <1>1, <1>24, <1>25 DEF CompilerInv

LEMMA EqualsIsReflexive == ASSUME NEW s PROVE Equals(s, s)
  BY DEF Equals, ToSet

(* What is in a list of schemas that are all the named ones. *)
LEMMA ResultNamed ==
  ASSUME SortInv, NEW name \in Done
  PROVE  LastField(result, name) = Named(name)
<1>1. IsList(result) /\ \E i \in DOMAIN result : result[i].name = name
  BY DEF SortInv, Done
<1>2. PICK i \in DOMAIN result : LastField(result, name) = result[i] /\ result[i].name = name
  BY <1>1, LastFieldIs
<1> QED BY <1>2 DEF SortInv

LEMMA DoneIsCounted ==
  ASSUME SortInv, AreSchemas(schemas)
  PROVE  /\ Done \subseteq Names /\ IsFiniteSet(Done) /\ Len(result) \in Nat
         /\ Cardinality(Done) = Len(result)
<1>1. PICK n : n = Len(result)
  OBVIOUS
<1>2. n \in Nat /\ DOMAIN result = 1..n
  BY <1>1, ListGrows DEF SortInv
<1> DEFINE f == [i \in 1..n |-> result[i].name]
<1>3. \A i, j \in 1..n : result[i].name = result[j].name => i = j
  BY <1>2 DEF SortInv
<1>4. Done = {result[i].name : i \in 1..n}
  BY <1>2 DEF Done
<1>5. f \in [1..n -> Done] /\ (\A t \in Done : \E i \in 1..n : f[i] = t) /\ DOMAIN f = 1..n
      /\ \A i, j \in 1..n : f[i] = f[j] => i = j
  BY <1>3, <1>4
<1> HIDE DEF f
<1>6. f \in Surjection(1..n, Done) /\ f \in Injection(1..n, Done)
  BY <1>5 DEF Surjection, Injection, IsInjective
<1>7. IsFiniteSet(1..n) /\ Cardinality(1..n) = n
  BY <1>2, FS_Interval
<1>8. IsFiniteSet(Done) /\ Cardinality(Done) = n
  BY <1>6, <1>7, FS_Surjection
<1>9. Done \subseteq Names
  BY DEF SortInv, Done
<1> QED BY <1>1, <1>2, <1>8, <1>9

(* A sort that has finished: all types are there, or there is a reason. *)
LEMMA FinishSortKeeps ==
  ASSUME CompilerInv, FinishSort
  PROVE  CompilerInv'
<1>1. /\ stage = "sorting" /\ queue = <<>>
      /\ stage' = IF Len(result) = Len(schemas) THEN "sorted" ELSE "circular"
      /\ lines' = lines /\ schemas' = schemas /\ inDegree' = inDegree /\ queue' = queue
      /\ result' = result
      /\ IsList(lines) /\ AreSchemas(schemas) /\ SortInv
  BY DEF FinishSort, CompilerInv
<1>2. Waiting = {}
  BY <1>1 DEF Waiting
<1>3. /\ IsFiniteSet(Names) /\ Cardinality(Names) \in Nat /\ Len(schemas) \in Nat
      /\ Cardinality(Names) <= Len(schemas)
  BY <1>1, NamesAreFinite, FS_CardinalityType
<1>4. /\ Done \subseteq Names /\ IsFiniteSet(Done) /\ Len(result) \in Nat
      /\ Cardinality(Done) = Len(result)
  BY <1>1, DoneIsCounted
<1>5. Done \in SUBSET Names
  BY <1>4
<1>6. Cardinality(Done) <= Cardinality(Names) /\ (Cardinality(Names) = Cardinality(Done) => Names = Done)
  BY <1>3, <1>5, FS_Subset
<1>7. CASE Len(result) = Len(schemas)
  <2>1. Done = Names
    BY <1>3, <1>4, <1>6, <1>7
  <2>2. {s.name : s \in ToSet(schemas)} = Names /\ {s.name : s \in ToSet(result)} = Done
    BY DEF ToSet, Names, Done
  <2>3. \A name \in Names : LastField(result, name) = LastField(schemas, name)
    BY <1>1, <2>1, ResultNamed DEF Named
  <2>4. \A name \in Names : Equals(LastField(schemas, name), LastField(schemas, name))
    BY EqualsIsReflexive
  <2>5. \A name \in Names : (\E s \in ToSet(schemas) : s.name = name) /\
                             (\E s \in ToSet(result) : s.name = name)
    BY <2>1, <2>2
  <2>6. HasIdenticalSchemas(schemas, result) /\ HasIdenticalSchemas(result, schemas)
    <3>1. \A name \in Names : Equals(LastField(schemas, name), LastField(result, name)) /\
                               Equals(LastField(result, name), LastField(schemas, name))
      BY <2>3, <2>4
    <3> QED BY <1>7, <2>1, <2>2, <2>5, <3>1 DEF HasIdenticalSchemas
  <2>7. ASSUME NEW i \in DOMAIN result, NEW j \in DOMAIN result,
               RefersTo(result[i].name, result[j].name)
        PROVE  j < i
    <3>1. result[i].name \in Names /\ result[i] = Named(result[i].name) /\ result[j].name \in Names
      BY <1>1 DEF SortInv
    <3>2. PICK name, dep : name = result[i].name /\ dep = result[j].name
      OBVIOUS
    <3>3. References(name, dep) # 0
      BY <1>1, <2>7, <3>1, <3>2, ReferencesCount DEF RefersTo
    <3>4. PICK d \in Dependencies(Named(name)) : d.on = dep
      BY <1>1, <3>1, <3>2, <3>3, ReferencesCount
    <3>5. d \in Dependencies(result[i]) /\ d.on \in Names
      BY <3>1, <3>2, <3>4
    <3>6. PICK k \in DOMAIN result : k < i /\ result[k].name = d.on
      BY <1>1, <3>5 DEF SortInv
    <3>7. k = j
      BY <1>1, <3>2, <3>4, <3>6 DEF SortInv
    <3> QED BY <3>6, <3>7
  <2>8. stage' = "sorted"
    BY <1>1, <1>7
  <2>9. SortIsCorrect'
    <3>1. HasIdenticalSchemas(schemas, result)' /\ HasIdenticalSchemas(result, schemas)'
      BY <1>1, <2>6
    <3>2. (\A i, j \in DOMAIN result : RefersTo(result[i].name, result[j].name) => j < i)'
      BY <1>1, <2>7 DEF RefersTo, References, Named
    <3> QED BY <2>8, <3>1, <3>2 DEF SortIsCorrect
  <2> QED BY <1>1, <2>8, <2>9 DEF CompilerInv, SortInv, Names, Named, Done, Waiting, Missing
<1>8. CASE Len(result) # Len(schemas)
  <2>1. stage' = "circular"
    BY <1>1, <1>8
  <2>2. \/ Cardinality(Names) < Len(schemas)
        \/ \E S \in SUBSET Names : S # {} /\ \A a \in S : \E b \in S : RefersTo(a, b)
    <3>1. CASE Done = Names
      BY <1>3, <1>4, <1>8, <3>1
    <3>2. CASE Done # Names
      <4> DEFINE S == Names \ Done
      <4>1. S # {} /\ S \in SUBSET Names
        BY <1>4, <3>2
      <4>2. ASSUME NEW a \in S PROVE \E b \in S : RefersTo(a, b)
        <5>0. a \in Names
          OBVIOUS
        <5>1. inDegree[a] # 0 /\ inDegree[a] = Cardinality(Missing(a, Done))
          BY <1>1, <1>2 DEF SortInv
        <5>2. Missing(a, Done) # {}
          BY <1>1, <5>0, <5>1, MissingIsCounted
        <5>3. PICK d \in Dependencies(Named(a)) : d.on \in S
          BY <5>2 DEF Missing
        <5>4. PICK b : b = d.on
          OBVIOUS
        <5>5. References(a, b) \in Nat /\ References(a, b) # 0
          BY <1>1, <5>0, <5>3, <5>4, ReferencesCount
        <5>6. RefersTo(a, b)
          BY <5>5 DEF RefersTo
        <5> QED BY <5>3, <5>4, <5>6
      <4> HIDE DEF S
      <4> QED BY <4>1, <4>2
    <3> QED BY <3>1, <3>2
  <2>3. SortIsCorrect'
    <3>1. Names' = Names /\ \A a, b : RefersTo(a, b)' = RefersTo(a, b)
      BY <1>1 DEF Names, RefersTo, References, Named
    <3> QED BY <1>1, <2>1, <2>2, <3>1 DEF SortIsCorrect
  <2> QED BY <1>1, <2>1, <2>3 DEF CompilerInv, SortInv, Names, Named, Done, Waiting, Missing
<1> QED BY <1>7, <1>8

LEMMA CompilerStep == CompilerInv /\ [CompilerNext]_compilerVars => CompilerInv'
<1> SUFFICES ASSUME CompilerInv, [CompilerNext]_compilerVars PROVE CompilerInv'
  OBVIOUS
<1>1. ASSUME ReadLine PROVE CompilerInv'
  <2>1. PICK line : lines' = Append(lines, line)
    BY <1>1 DEF ReadLine
  <2>2. /\ stage = "reading" /\ stage' = stage /\ schemas' = schemas /\ result' = result
        /\ IsList(lines) /\ AreSchemas(schemas) /\ result = <<>>
    BY <1>1 DEF ReadLine, CompilerInv
  <2>3. IsList(lines')
    BY <2>1, <2>2, ListGrows
  <2> QED BY <2>2, <2>3 DEF CompilerInv, SortIsCorrect
<1>2. ASSUME ParseDocument PROVE CompilerInv'
  <2>1. /\ stage' \in {"panicked", "error", "parsed"} /\ lines' = lines /\ result' = result
        /\ schemas' = <<>> \/ schemas' = Parse(language, lines).schemas
        /\ IsList(lines) /\ result = <<>>
    BY <1>2 DEF ParseDocument, CompilerInv
  <2>2. AreSchemas(<<>>)
    BY UnreadIsProgress, ProgressHas DEF Unread
  <2>3. Len(lines) \in Nat
    BY <2>1, ListGrows
  <2>4. AreSchemas(schemas')
    BY <2>1, <2>2, <2>3, DocumentsMakeSchemas
  <2> QED BY <2>1, <2>4 DEF CompilerInv, SortIsCorrect
<1>3. ASSUME UNCHANGED compilerVars PROVE CompilerInv'
  <2>1. /\ stage' = stage /\ lines' = lines /\ schemas' = schemas /\ inDegree' = inDegree
        /\ queue' = queue /\ result' = result
    BY <1>3 DEF compilerVars
  <2>2. ASSUME SortInv PROVE SortInv'
    <3>1. Names' = Names /\ Done' = Done /\ Waiting' = Waiting
      BY <2>1 DEF Names, Done, Waiting
    <3>2. \A name : Missing(name, Done)' = Missing(name, Done)
      BY <2>1, <3>1 DEF Missing, Named
    <3>3. inDegree' = [name \in Names' |-> Cardinality(Missing(name, Done)')]
      BY <2>1, <2>2, <3>1, <3>2 DEF SortInv
    <3>4. (\A i \in DOMAIN result : result[i].name \in Names /\ result[i] = Named(result[i].name))'
      BY <2>1, <2>2, <3>1 DEF SortInv, Named
    <3> QED BY <2>1, <2>2, <3>1, <3>3, <3>4 DEF SortInv
  <2>3. SortIsCorrect'
    <3>1. SortIsCorrect
      BY DEF CompilerInv
    <3>2. /\ HasIdenticalSchemas(schemas, result)' = HasIdenticalSchemas(schemas, result)
          /\ HasIdenticalSchemas(result, schemas)' = HasIdenticalSchemas(result, schemas)
      BY <2>1
    <3>3. stage = "sorted" =>
            (\A i, j \in DOMAIN result : RefersTo(result[i].name, result[j].name) => j < i)'
      BY <2>1, <3>1 DEF SortIsCorrect, RefersTo, References, Named
    <3>4. Names' = Names /\ \A a, b : RefersTo(a, b)' = RefersTo(a, b)
      BY <2>1 DEF Names, RefersTo, References, Named
    <3>5. stage = "circular" =>
            (\/ Cardinality(Names) < Len(schemas)
             \/ \E S \in SUBSET Names : S # {} /\ \A a \in S : \E b \in S : RefersTo(a, b))'
      BY <2>1, <3>1, <3>4 DEF SortIsCorrect
    <3> QED BY <2>1, <3>1, <3>2, <3>3, <3>5 DEF SortIsCorrect
  <2> QED BY <2>1, <2>2, <2>3 DEF CompilerInv
<1> QED BY <1>1, <1>2, <1>3, StartSortKeeps, DequeueKeeps, FinishSortKeeps DEF CompilerNext

(* TopologicalSort (schema/parser.go): whatever the documents say and in   *)
(* whatever order Go walks its maps, a sort that succeeds returns all the  *)
(* schemas, each after what it refers to, and one that reports a circular  *)
(* dependency has met one, or two schemas of one name.                     *)
THEOREM SortStaysCorrect == CompilerSpec => []SortIsCorrect
<1>1. CompilerInv => SortIsCorrect
  BY DEF CompilerInv
<1> QED BY <1>1, CompilerInvInit, CompilerStep, PTL DEF CompilerSpec

(***************************************************************************)
(* Equality of schemas                                                     *)
(***************************************************************************)
(* Of fields of different names the one with a name is the last with it.   *)
LEMMA OnlyField ==
  ASSUME NEW fields, IsList(fields), NEW i \in DOMAIN fields,
         \A j, k \in DOMAIN fields : j # k => fields[j].name # fields[k].name
  PROVE  LastField(fields, fields[i].name) = fields[i]
<1>1. PICK name : name = fields[i].name
  OBVIOUS
<1>2. PICK j \in DOMAIN fields : LastField(fields, name) = fields[j] /\ fields[j].name = name
  BY <1>1, LastFieldIs
<1> QED BY <1>1, <1>2

(* There are as many fields as there are places for them. *)
LEMMA FieldsCount ==
  ASSUME NEW fields, IsList(fields),
         \A j, k \in DOMAIN fields : j # k => fields[j].name # fields[k].name
  PROVE  IsFiniteSet(ToSet(fields)) /\ Cardinality(ToSet(fields)) = Len(fields) /\ Len(fields) \in Nat
<1>1. PICK n : n = Len(fields)
  OBVIOUS
<1>2. n \in Nat /\ DOMAIN fields = 1..n
  BY <1>1, ListGrows
<1> DEFINE T == ToSet(fields)
           f == [i \in 1..n |-> fields[i]]
<1>3. T = {fields[i] : i \in 1..n}
  BY <1>2 DEF ToSet
<1>4. f \in [1..n -> T] /\ (\A t \in T : \E i \in 1..n : f[i] = t) /\ DOMAIN f = 1..n
      /\ \A i, j \in 1..n : f[i] = f[j] => i = j
  BY <1>2, <1>3
<1> HIDE DEF f, T
<1>5. f \in Surjection(1..n, T) /\ f \in Injection(1..n, T)
  BY <1>4 DEF Surjection, Injection, IsInjective
<1>6. IsFiniteSet(1..n) /\ Cardinality(1..n) = n
  BY <1>2, FS_Interval
<1>7. IsFiniteSet(T) /\ Cardinality(T) = n
  BY <1>5, <1>6, FS_Surjection
<1> QED BY <1>1, <1>2, <1>7 DEF T

(* Equals compares objects field by field: none is left out. *)
LEMMA ObjectsAreCompared ==
  ASSUME NEW a, NEW b, IsList(a), IsList(b),
         \A j, k \in DOMAIN a : j # k => a[j].name # a[k].name,
         \A j, k \in DOMAIN b : j # k => b[j].name # b[k].name
  PROVE  ToSet(a) = ToSet(b) <=>
           /\ Len(a) = Len(b)
           /\ \A name \in {f.name : f \in ToSet(a)} :
                /\ \E f \in ToSet(b) : f.name = name
                /\ LastField(a, name) = LastField(b, name)
<1> DEFINE Same == \A name \in {f.name : f \in ToSet(a)} :
                     /\ \E f \in ToSet(b) : f.name = name
                     /\ LastField(a, name) = LastField(b, name)
<1>1. /\ IsFiniteSet(ToSet(a)) /\ Cardinality(ToSet(a)) = Len(a)
      /\ IsFiniteSet(ToSet(b)) /\ Cardinality(ToSet(b)) = Len(b)
  BY FieldsCount
<1>2. /\ \A f \in ToSet(a) : LastField(a, f.name) = f
      /\ \A f \in ToSet(b) : LastField(b, f.name) = f
  BY OnlyField DEF ToSet
<1>3. ASSUME Len(a) = Len(b), Same PROVE ToSet(a) = ToSet(b)
  <2>1. ASSUME NEW f \in ToSet(a) PROVE f \in ToSet(b)
    <3>1. PICK g \in ToSet(b) : g.name = f.name
      BY <1>3
    <3>2. LastField(a, f.name) = LastField(b, f.name)
      BY <1>3
    <3>3. g = f
      BY <1>2, <3>1, <3>2
    <3> QED BY <3>3
  <2>2. ToSet(a) \in SUBSET ToSet(b)
    BY <2>1
  <2> QED BY <1>1, <1>3, <2>2, FS_Subset
<1>4. ASSUME ToSet(a) = ToSet(b) PROVE Len(a) = Len(b) /\ Same
  <2>1. Len(a) = Len(b)
    BY <1>1, <1>4
  <2>2. ASSUME NEW f \in ToSet(a)
        PROVE  f \in ToSet(b) /\ LastField(a, f.name) = LastField(b, f.name)
    BY <1>2, <1>4
  <2> QED BY <2>1, <2>2
<1> QED BY <1>3, <1>4

(* schema.go: of two schemas whose fields have different names, Equals     *)
(* tells exactly those apart that differ in more than the order of their   *)
(* fields, however many there are.                                         *)
THEOREM EqualsTellsApart ==
  ASSUME NEW a, NEW b, IsSchema(a), IsSchema(b), Distinct(a), Distinct(b)
  PROVE  Equals(a, b) <=> a.name = b.name /\ (a = b \/ SameFields(a, b))
<1>1. CASE a.kind = "Object" /\ b.kind = "Object"
  <2>1. PICK name, fields, name2, fields2 :
          /\ IsList(fields) /\ a = ObjectSchema(name, fields)
          /\ IsList(fields2) /\ b = ObjectSchema(name2, fields2)
    BY <1>1, KindTells DEF IsObject
  <2>2. a.fields = fields /\ b.fields = fields2
    BY <2>1 DEF ObjectSchema
  <2>3. /\ \A j, k \in DOMAIN fields : j # k => fields[j].name # fields[k].name
        /\ \A j, k \in DOMAIN fields2 : j # k => fields2[j].name # fields2[k].name
    BY <1>1, <2>2 DEF Distinct
  <2>4. ToSet(fields) = ToSet(fields2) <=>
          /\ Len(fields) = Len(fields2)
          /\ \A n \in {f.name : f \in ToSet(fields)} :
               /\ \E f \in ToSet(fields2) : f.name = n
               /\ LastField(fields, n) = LastField(fields2, n)
    BY <2>1, <2>3, ObjectsAreCompared
  <2>5. Equals(a, b) <=> a.name = b.name /\ ToSet(fields) = ToSet(fields2)
    BY <1>1, <2>2, <2>4 DEF Equals
  <2>6. SameFields(a, b) <=> ToSet(fields) = ToSet(fields2)
    BY <1>1, <2>2 DEF SameFields
  <2>7. a = b => ToSet(fields) = ToSet(fields2)
    BY <2>2
  <2> QED BY <2>5, <2>6, <2>7
<1>2. CASE ~(a.kind = "Object" /\ b.kind = "Object")
  <2>1. ~SameFields(a, b)
    BY <1>2 DEF SameFields
  <2>2. Equals(a, b) <=> a.name = b.name /\ a = b
    BY <1>2 DEF Equals
  <2> QED BY <2>1, <2>2
<1> QED BY <1>1, <1>2

(***************************************************************************)
(* Collections                                                             *)
(***************************************************************************)
MapEntries == [key : MapKeys, value : MapValues]

IsCollection(c) == c \in [entries : Seq(MapEntries), ordinal : Ordinals]

(* What can be asked for. *)
Visible(c) == IF Hidden(c) THEN {} ELSE DOMAIN MapOf(c)

LEMMA MapIs ==
  ASSUME NEW c, IsCollection(c)
  PROVE  /\ DOMAIN MapOf(c) \subseteq MapKeys /\ IsFiniteSet(DOMAIN MapOf(c))
         /\ \A k \in DOMAIN MapOf(c) : MapOf(c)[k] \in MapValues
         /\ c.entries = <<>> => DOMAIN MapOf(c) = {}
<1> DEFINE list == c.entries
           K == {e.key : e \in ToSet(list)}
           last(k) == Max({i \in DOMAIN list : list[i].key = k})
<1>1. list \in Seq(MapEntries)
  BY DEF IsCollection
<1>2. PICK n \in Nat : DOMAIN list = 1..n /\ \A i \in 1..n : list[i] \in MapEntries
  <2>1. DOMAIN list = 1..Len(list) /\ Len(list) \in Nat
    BY <1>1
  <2>2. \A i \in 1..Len(list) : list[i] \in MapEntries
    BY <1>1
  <2> HIDE DEF list
  <2> QED BY <2>1, <2>2
<1> HIDE DEF list
<1>11. \A i \in 1..n : list[i].key \in MapKeys /\ list[i].value \in MapValues
  BY <1>2 DEF MapEntries
<1>3. DOMAIN MapOf(c) = K /\ \A k \in K : MapOf(c)[k] = list[last(k)].value
  BY DEF MapOf, list
<1> DEFINE f == [i \in 1..n |-> list[i].key]
<1>4. K = {f[i] : i \in 1..n}
  BY <1>2 DEF ToSet
<1>5. f = [i \in 1..n |-> f[i]]
  OBVIOUS
<1>6. IsFiniteSet(1..n)
  BY FS_Interval
<1>7. IsFiniteSet(K)
  <2> HIDE DEF f, K
  <2> QED BY <1>4, <1>5, <1>6, SurjectionOnImage
<1>8. K \subseteq MapKeys
  BY <1>4, <1>11
<1>9. ASSUME NEW k \in K PROVE list[last(k)].value \in MapValues
  <2> DEFINE T == {i \in DOMAIN list : list[i].key = k}
  <2>1. T # {} /\ T \subseteq 0..n /\ T \subseteq 1..n
    BY <1>2, <1>4
  <2>2. last(k) = CHOOSE x \in T : \A y \in T : x >= y
    BY DEF Max
  <2> HIDE DEF T, last
  <2>3. \E x \in T : \A y \in T : x >= y
    <3>1. PICK x \in T : \A y \in T : y <= x
      BY <2>1, LastExists
    <3>2. x \in Int /\ \A y \in T : y \in Int
      BY <2>1
    <3> QED BY <3>1, <3>2
  <2>4. last(k) \in 1..n
    BY <2>1, <2>2, <2>3
  <2> QED BY <1>11, <2>4
<1>10. list = <<>> => K = {}
  BY DEF ToSet
<1> QED BY <1>3, <1>7, <1>8, <1>9, <1>10 DEF list

(* What the calls say of a collection, by what can be seen of it. *)
LEMMA CallsTell ==
  ASSUME NEW c, IsCollection(c)
  PROVE  /\ Visible(c) \subseteq MapKeys /\ IsFiniteSet(Visible(c))
         /\ Size(c) = Cardinality(Visible(c)) /\ Size(c) \in Nat
         /\ \A k : HasKey(c, k) <=> k \in Visible(c)
         /\ \A k : IF k \in Visible(c) THEN Get(c, k) = MapOf(c)[k] /\ Get(c, k) # NoValue
                   ELSE Get(c, k) = NoValue
<1>1. /\ Visible(c) \subseteq MapKeys /\ IsFiniteSet(Visible(c))
      /\ Size(c) = Cardinality(Visible(c))
  BY MapIs, FS_EmptySet DEF Visible, Size
<1>2. Size(c) \in Nat
  BY <1>1, FS_CardinalityType
<1>3. \A k : HasKey(c, k) <=> k \in Visible(c)
  BY DEF HasKey, Visible
<1>4. \A k : IF k \in Visible(c) THEN Get(c, k) = MapOf(c)[k] /\ Get(c, k) # NoValue
             ELSE Get(c, k) = NoValue
  BY MapIs, CollectionsAssumption DEF Visible, Get
<1> QED BY <1>1, <1>2, <1>3, <1>4

(* An order in which the keys come. *)
LEMMA KeysAre ==
  ASSUME NEW c, IsCollection(c), NEW order \in Keys(c)
  PROVE  /\ order \in [1..Size(c) -> Visible(c)] /\ Len(order) = Size(c)
         /\ \A m, n \in 1..Size(c) : m # n => order[m] # order[n]
<1>1. Size(c) \in Nat /\ Size(c) = Cardinality(Visible(c))
  BY CallsTell
<1>2. CASE Hidden(c)
  <2>1. order = <<>> /\ Visible(c) = {} /\ Size(c) = 0
    BY <1>2 DEF Keys, Visible, Size
  <2> QED BY <2>1
<1>3. CASE ~Hidden(c)
  <2>1. PICK s, V : s = Size(c) /\ V = Visible(c)
    OBVIOUS
  <2>2. Keys(c) = {f \in [1..s -> V] : \A i, j \in 1..s : i # j => f[i] # f[j]}
    BY <1>1, <1>3, <2>1 DEF Keys, Visible, SetToSeqs
  <2>3. order \in [1..s -> V] /\ \A i, j \in 1..s : i # j => order[i] # order[j]
    BY <2>2
  <2>4. Len(order) = s
    BY <1>1, <2>1, <2>3
  <2> QED BY <2>1, <2>3, <2>4
<1> QED BY <1>2, <1>3

CollectionInv == IsCollection(one) /\ IsCollection(other)

(* Two maps that look the same are equal. *)
LEMMA EqualMapsLookTheSame ==
  ASSUME NEW a, NEW b, IsCollection(a), IsCollection(b), ~(Hidden(a) /\ a.entries # <<>>)
  PROVE  MapEquals(a, b) <=> \A k \in MapKeys : Get(a, k) = Get(b, k)
<1>1. DOMAIN MapOf(a) = Visible(a)
  BY MapIs DEF Visible
<1>2. MapEquals(a, b) <=> /\ Size(a) = Size(b)
                          /\ \A k \in Visible(a) : k \in Visible(b) /\ Get(a, k) = Get(b, k)
  BY <1>1, CallsTell DEF MapEquals
<1>3. ASSUME MapEquals(a, b), NEW k \in MapKeys PROVE Get(a, k) = Get(b, k)
  <2>1. Visible(a) \in SUBSET Visible(b)
    BY <1>2, <1>3
  <2>2. Visible(a) = Visible(b)
    BY <1>2, <1>3, <2>1, CallsTell, FS_Subset
  <2> QED BY <1>2, <1>3, <2>2, CallsTell
<1>4. ASSUME \A k \in MapKeys : Get(a, k) = Get(b, k) PROVE MapEquals(a, b)
  <2>1. Visible(a) = Visible(b)
    <3>1. \A k \in MapKeys : k \in Visible(a) <=> k \in Visible(b)
      BY <1>4, CallsTell
    <3> QED BY <3>1, CallsTell
  <2>2. Size(a) = Size(b)
    BY <2>1, CallsTell
  <2> QED BY <1>2, <1>4, <2>1, <2>2, CallsTell
<1> QED BY <1>3, <1>4

LEMMA CollectionsTell ==
  ASSUME CollectionInv
  PROVE  CollectionsAgree
<1>0. IsCollection(one) /\ IsCollection(other)
  BY DEF CollectionInv
<1>1. ~(Hidden(one) /\ one.entries # <<>>) =>
        (MapEquals(one, other) <=> \A k \in MapKeys : Get(one, k) = Get(other, k))
  BY <1>0, EqualMapsLookTheSame
<1>2. ASSUME NEW order \in EntrySet(one)
      PROVE  /\ Len(order) = Size(one)
             /\ \A n \in DOMAIN order :
                  /\ HasKey(one, order[n].key) /\ Get(one, order[n].key) = order[n].value
                  /\ \A m \in 1..(n - 1) : order[m].key # order[n].key
  <2>1. PICK keys \in Keys(one) : order = [n \in DOMAIN keys |-> Entry(keys[n], MapOf(one)[keys[n]])]
    BY DEF EntrySet
  <2>2. PICK s : s = Size(one)
    OBVIOUS
  <2>3. /\ s \in Nat /\ keys \in [1..s -> Visible(one)]
        /\ \A m, n \in 1..s : m # n => keys[m] # keys[n]
    BY <1>0, <2>2, CallsTell, KeysAre
  <2>4. /\ DOMAIN order = 1..s
        /\ \A n \in 1..s : order[n].key = keys[n] /\ order[n].value = MapOf(one)[keys[n]]
    BY <2>1, <2>3 DEF Entry
  <2>5. Len(order) = s
    BY <2>1, <2>3
  <2>6. ASSUME NEW n \in 1..s
        PROVE  /\ HasKey(one, order[n].key) /\ Get(one, order[n].key) = order[n].value
               /\ \A m \in 1..(n - 1) : order[m].key # order[n].key
    <3>1. keys[n] \in Visible(one)
      BY <2>3
    <3>2. HasKey(one, keys[n]) /\ Get(one, keys[n]) = MapOf(one)[keys[n]]
      BY <1>0, <3>1, CallsTell
    <3>3. \A m \in 1..(n - 1) : m \in 1..s /\ m # n
      BY <2>3
    <3> QED BY <2>3, <2>4, <3>2, <3>3
  <2> QED BY <2>2, <2>4, <2>5, <2>6
<1>3. ASSUME NEW values \in Values(one) PROVE Len(values) = Size(one)
  <2>1. PICK keys \in Keys(one) : values = [n \in DOMAIN keys |-> MapOf(one)[keys[n]]]
    BY DEF Values
  <2>2. PICK s : s = Size(one)
    OBVIOUS
  <2>3. s \in Nat /\ keys \in [1..s -> Visible(one)]
    BY <1>0, <2>2, CallsTell, KeysAre
  <2> QED BY <2>1, <2>2, <2>3
<1>4. ASSUME NEW i \in 0..MaxEntries PROVE ListGet(one, i) # NoValue <=> i < ListSize(one)
  <2>1. PICK list, n : list = one.entries /\ n = Len(list)
    OBVIOUS
  <2>5. list \in Seq(MapEntries)
    BY <1>0, <2>1 DEF IsCollection
  <2>6. n \in Nat /\ \A j \in 1..n : list[j].value \in MapValues
    <3>1. n \in Nat /\ \A j \in 1..n : list[j] \in MapEntries
      BY <2>1, <2>5
    <3> QED BY <3>1 DEF MapEntries
  <2>2. i \in Nat
    OBVIOUS
  <2>3. CASE Hidden(one)
    BY <2>2, <2>3 DEF ListGet, ListSize
  <2>4. CASE ~Hidden(one)
    <3>1. ListSize(one) = n /\ ListGet(one, i) = IF i >= n THEN NoValue ELSE list[i + 1].value
      BY <2>1, <2>2, <2>4 DEF ListGet, ListSize
    <3>2. i < n => i + 1 \in 1..n
      BY <2>2, <2>6
    <3> QED BY <2>2, <2>6, <3>1, <3>2, CollectionsAssumption
  <2> QED BY <2>3, <2>4
<1> QED BY <1>1, <1>2, <1>3, <1>4 DEF CollectionsAgree

LEMMA CollectionStep == CollectionInv /\ [CollectionNext]_collectionVars => CollectionInv'
<1>1. ASSUME NEW c, IsCollection(c), NEW d \in Extended(c) PROVE IsCollection(d)
  <2>1. PICK k \in MapKeys, v \in MapValues : d = [c EXCEPT !.entries = Append(@, Entry(k, v))]
    BY DEF Extended
  <2>2. Entry(k, v) \in MapEntries
    BY DEF Entry, MapEntries
  <2>3. PICK list : list = c.entries
    OBVIOUS
  <2>4. Append(list, Entry(k, v)) \in Seq(MapEntries)
    BY <1>1, <2>2, <2>3 DEF IsCollection
  <2> QED BY <1>1, <2>1, <2>3, <2>4 DEF IsCollection
<1> QED BY <1>1 DEF CollectionInv, CollectionNext, AddEntry, collectionVars

(* collections.go: whatever the keys, the values and how many entries of   *)
(* one key a collection is made from, two maps are equal exactly if no     *)
(* call can tell them apart, unless the receiver is hidden with entries,   *)
(* and what the iterations give is what Get, HasKey and Size say.          *)
THEOREM CollectionsAlwaysAgree == CollectionSpec => []CollectionsAgree
<1>1. CollectionInit => CollectionInv
  <2>1. <<>> \in Seq(MapEntries)
    OBVIOUS
  <2> QED BY <2>1 DEF CollectionInit, CollectionInv, IsCollection
<1>2. CollectionInv => CollectionsAgree
  BY CollectionsTell
<1> QED BY <1>1, <1>2, CollectionStep, PTL DEF CollectionSpec
=============================================================================
