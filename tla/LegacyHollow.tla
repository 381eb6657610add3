---------------------------- MODULE LegacyHollow ----------------------------
(***************************************************************************)
(* The earlier API under legacy/: a producer that stages and commits one   *)
(* whole data set per version in a store kept in memory, a delta producer  *)
(* around it, and a consumer that asks for the latest version, retrieves   *)
(* it, and stores its data and its number one after the other.             *)
(*                                                                         *)
(* Refresh takes no lock: refreshers, goroutines that call it, run between *)
(* any two of each other's steps.  Producer.mu and DeltaProducer.mu allow  *)
(* one cycle at a time.  The announcement watcher the consumer is given is *)
(* not under src/: as in the tests and the README it asks the store's      *)
(* Latest, and says there is nothing new while that is 0.                  *)
(***************************************************************************)
EXTENDS Integers, DataDiff

CONSTANTS
  Contents,         \* the data sets: functions from keys to values
  Refreshers,       \* goroutines that may call Consumer.Refresh
  DeltaRefreshers,  \* those of them that may call RefreshWithDelta, too
  IsDeltaProducer,  \* whether the producer is a DeltaProducer
  MaxVersion,       \* bound on the versions a producer takes
  MaxFailures,      \* bound on calls of the store or a watcher that fail
  MaxRestarts       \* bound on new producers over the same store

ASSUME ContentsAssumption ==
  \A c \in Contents : c = [k \in DOMAIN c |-> c[k]]

ASSUME LegacyAssumption ==
  DeltaRefreshers \subseteq Refreshers /\ IsDeltaProducer \in BOOLEAN

ASSUME BoundsAssumption ==
  MaxVersion \in Nat /\ MaxFailures \in Nat /\ MaxRestarts \in Nat

VARIABLES
  version,       \* Producer.version
  cycle,         \* the RunCycle under way: its step, its data, and whether
                 \* RunDeltaCycle called it
  deltaCycle,    \* the RunDeltaCycle under way: its step, the version it
                 \* found in the store, and the one it got
  staged, blobs, latest,                 \* the store's fields
  deltas,        \* DeltaProducer.deltaStorage
  state, consumerVersion,                \* the consumer's two atomics
  refresh,       \* each refresher's step, version, data and, in
                 \* RefreshWithDelta, the version it will write in the end
  overlapped,    \* two refreshes have run at the same time, or one within
                 \* RefreshWithDelta
  failures, restarts

producerVars == <<version, cycle, deltaCycle, deltas>>
storeVars == <<staged, blobs, latest>>
consumerVars == <<state, consumerVersion, refresh, overlapped>>
legacyVars == <<producerVars, storeVars, consumerVars, failures, restarts>>

(* Definitions whose comment starts with "Slip:" are wrong versions of the *)
(* definition after them and no part of the specification.                 *)

Versions == 1..MaxVersion
Nothing == [x \in {} |-> x]     \* a map without keys
NoCycle == [at |-> "idle", data |-> Nothing, delta |-> FALSE]
NoDeltaCycle == [at |-> "idle", from |-> 0, to |-> 0]
NotRefreshing == [at |-> "idle", version |-> 0, data |-> Nothing, goal |-> 0]

With(f, x, y) == [z \in DOMAIN f \cup {x} |-> IF z = x THEN y ELSE f[z]]

LegacyInit ==
  /\ version = 0 /\ cycle = NoCycle /\ deltaCycle = NoDeltaCycle /\ deltas = Nothing
  /\ staged = Nothing /\ blobs = Nothing /\ latest = 0
  /\ state = Nothing /\ consumerVersion = 0
  /\ refresh = [r \in Refreshers |-> NotRefreshing]
  /\ overlapped = FALSE
  /\ failures = 0 /\ restarts = 0

CanFail == failures < MaxFailures /\ failures' = failures + 1

(***************************************************************************)
(* The producer                                                            *)
(***************************************************************************)

(* RunDeltaCycle, one at a time under DeltaProducer.mu, asks the store for *)
(* its latest version before it calls RunCycle.                            *)
RunDeltaCycle ==
  /\ IsDeltaProducer
  /\ deltaCycle.at = "idle" /\ version < MaxVersion
  /\ deltaCycle' = [at |-> "asked", from |-> latest, to |-> 0]
  /\ UNCHANGED <<version, cycle, deltas, storeVars, consumerVars, failures, restarts>>

(* Slip: the number is the store's, not the producer's own.                *)
RunCycleFromLatest ==
  \E data \in Contents, delta \in BOOLEAN :
    /\ cycle.at = "idle" /\ version < MaxVersion
    /\ delta => deltaCycle.at = "asked"
    /\ version' = IF latest = 0 THEN 1 ELSE latest
    /\ cycle' = [at |-> "stage", data |-> data, delta |-> delta]
    /\ deltaCycle' = IF delta THEN [deltaCycle EXCEPT !.at = "running"] ELSE deltaCycle
    /\ UNCHANGED <<deltas, storeVars, consumerVars, failures, restarts>>

(* RunCycle, called by itself or by RunDeltaCycle, under Producer.mu.  The *)
(* data is complete before a version number is taken, so that a cycle      *)
(* whose callback fails leaves no trace.                                   *)
RunCycle ==
  \E data \in Contents, delta \in BOOLEAN :
    /\ cycle.at = "idle" /\ version < MaxVersion
    /\ delta => deltaCycle.at = "asked"
    /\ version' = version + 1
    /\ cycle' = [at |-> "stage", data |-> data, delta |-> delta]
    /\ deltaCycle' = IF delta THEN [deltaCycle EXCEPT !.at = "running"] ELSE deltaCycle
    /\ UNCHANGED <<deltas, storeVars, consumerVars, failures, restarts>>

(* Slip: staging already moves the latest version.                         *)
StageIsLatest ==
  /\ cycle.at = "stage"
  /\ staged' = With(staged, version, cycle.data)
  /\ latest' = IF version > latest THEN version ELSE latest
  /\ cycle' = [cycle EXCEPT !.at = "commit"]
  /\ UNCHANGED <<version, deltaCycle, deltas, blobs, consumerVars, failures, restarts>>

Stage ==
  /\ cycle.at = "stage"
  /\ staged' = With(staged, version, cycle.data)
  /\ cycle' = [cycle EXCEPT !.at = "commit"]
  /\ UNCHANGED <<version, deltaCycle, deltas, blobs, latest, consumerVars, failures, restarts>>

Commit ==
  /\ cycle.at = "commit"
  /\ blobs' = With(blobs, version, staged[version])
  /\ staged' = [v \in DOMAIN staged \ {version} |-> staged[v]]
  /\ latest' = IF version > latest THEN version ELSE latest
  /\ cycle' = NoCycle
  /\ deltaCycle' = IF cycle.delta
                   THEN [deltaCycle EXCEPT !.at = "store", !.to = version]
                   ELSE deltaCycle
  /\ UNCHANGED <<version, deltas, consumerVars, failures, restarts>>

(* A stager that returns an error; the version number stays taken.         *)
CycleFails ==
  /\ cycle.at \in {"stage", "commit"}
  /\ CanFail
  /\ cycle' = NoCycle
  /\ deltaCycle' = IF cycle.delta THEN NoDeltaCycle ELSE deltaCycle
  /\ UNCHANGED <<version, deltas, storeVars, consumerVars, restarts>>

(* Slip: the delta is filed under the number before the new one.           *)
StoreDeltaFromPrevious ==
  /\ deltaCycle.at = "store"
  /\ deltas' = With(deltas, <<deltaCycle.to - 1, deltaCycle.to>>, DiffData(Nothing, Nothing))
  /\ deltaCycle' = NoDeltaCycle
  /\ UNCHANGED <<version, cycle, storeVars, consumerVars, failures, restarts>>

(* The rest of RunDeltaCycle.  lastSnapshot starts empty and every cycle   *)
(* replaces it by a new, empty map: both sides of the diff are empty.      *)
StoreDelta ==
  /\ deltaCycle.at = "store"
  /\ deltas' = With(deltas, <<deltaCycle.from, deltaCycle.to>>, DiffData(Nothing, Nothing))
  /\ deltaCycle' = NoDeltaCycle
  /\ UNCHANGED <<version, cycle, storeVars, consumerVars, failures, restarts>>

(* A new producer, which counts from 0, over the same store.               *)
NewProducer ==
  /\ restarts < MaxRestarts
  /\ restarts' = restarts + 1
  /\ version' = 0 /\ cycle' = NoCycle /\ deltaCycle' = NoDeltaCycle /\ deltas' = Nothing
  /\ UNCHANGED <<storeVars, consumerVars, failures>>

ProducerNext ==
  RunDeltaCycle \/ RunCycle \/ Stage \/ Commit \/ CycleFails \/ StoreDelta \/ NewProducer

(***************************************************************************)
(* The consumer                                                            *)
(***************************************************************************)

RefreshOnly == UNCHANGED <<producerVars, storeVars, restarts>>
Quiet(r) == refresh[r].at = "idle"
To(r, step) == refresh' = [refresh EXCEPT ![r].at = step]
Returns(r) == refresh' = [refresh EXCEPT ![r] = NotRefreshing]

Overlaps(r) == overlapped' = (overlapped \/ \E s \in Refreshers \ {r} : ~Quiet(s))

(* Refresh is called.                                                      *)
CallRefresh(r) ==
  /\ Quiet(r)
  /\ To(r, "ask")
  /\ Overlaps(r)
  /\ UNCHANGED <<state, consumerVersion, failures>> /\ RefreshOnly

(* RefreshWithDelta(current), one at a time under DeltaConsumer.mu, asks   *)
(* for the latest version and returns unless that is news.  Nothing ever   *)
(* stores a delta with the consumer, so that it falls back to Refresh and  *)
(* then overwrites the version.                                            *)
CallRefreshWithDelta(r) ==
  /\ Quiet(r) /\ r \in DeltaRefreshers
  /\ \A s \in DeltaRefreshers : refresh[s].goal = 0
  /\ latest > 0
  /\ overlapped' = TRUE
  /\ \E current \in {0} \cup Versions : current # latest
  /\ refresh' = [refresh EXCEPT ![r] = [NotRefreshing EXCEPT !.at = "ask", !.goal = latest]]
  /\ UNCHANGED <<state, consumerVersion, failures>> /\ RefreshOnly

(* The watcher is called, and Refresh returns if there is no version.      *)
Ask(r) ==
  /\ refresh[r].at = "ask"
  /\ IF latest = 0
     THEN Returns(r)
     ELSE refresh' = [refresh EXCEPT ![r].at = "retrieve", ![r].version = latest]
  /\ UNCHANGED <<state, consumerVersion, overlapped, failures>> /\ RefreshOnly

Retrieve(r) ==
  /\ refresh[r].at = "retrieve"
  /\ refresh[r].version \in DOMAIN blobs
  /\ refresh' = [refresh EXCEPT ![r].at = "state", ![r].data = blobs[refresh[r].version]]
  /\ UNCHANGED <<state, consumerVersion, overlapped, failures>> /\ RefreshOnly

(* The watcher, the retriever or the decoder returns an error.  That the   *)
(* store has no such version is not among the reasons: see                 *)
(* LatestIsRetrievable.                                                    *)
RefreshFails(r) ==
  /\ refresh[r].at \in {"ask", "retrieve"}
  /\ CanFail
  /\ Returns(r)
  /\ UNCHANGED <<state, consumerVersion, overlapped>> /\ RefreshOnly

SetState(r) ==
  /\ refresh[r].at = "state"
  /\ state' = refresh[r].data
  /\ To(r, "version")
  /\ UNCHANGED <<consumerVersion, overlapped, failures>> /\ RefreshOnly

(* Slip: the store is asked once more.                                     *)
SetVersionLatest(r) ==
  /\ refresh[r].at = "version"
  /\ consumerVersion' = latest
  /\ IF refresh[r].goal = 0 THEN Returns(r) ELSE To(r, "goal")
  /\ UNCHANGED <<state, overlapped, failures>> /\ RefreshOnly

SetVersion(r) ==
  /\ refresh[r].at = "version"
  /\ consumerVersion' = refresh[r].version
  /\ IF refresh[r].goal = 0 THEN Returns(r) ELSE To(r, "goal")
  /\ UNCHANGED <<state, overlapped, failures>> /\ RefreshOnly

(* RefreshWithDelta writes the version it was told before it refreshed.    *)
SetGoal(r) ==
  /\ refresh[r].at = "goal"
  /\ consumerVersion' = refresh[r].goal
  /\ Returns(r)
  /\ UNCHANGED <<state, overlapped, failures>> /\ RefreshOnly

(* What Refresh does by itself once it was called.                         *)
RefreshStep(r) ==
  Ask(r) \/ Retrieve(r) \/ SetState(r) \/ SetVersion(r) \/ SetGoal(r)

LegacyNext ==
  \/ ProducerNext
  \/ \E r \in Refreshers : CallRefresh(r) \/ RefreshStep(r) \/ RefreshFails(r)
  \/ \E r \in DeltaRefreshers : CallRefreshWithDelta(r)

LegacySpec == LegacyInit /\ [][LegacyNext]_legacyVars

(***************************************************************************)
(* Properties                                                              *)
(***************************************************************************)

(* A map from some of D to T.                                              *)
IsMap(f, D, T) ==
  /\ f = [x \in DOMAIN f |-> f[x]]
  /\ DOMAIN f \subseteq D
  /\ \A x \in DOMAIN f : f[x] \in T

Data == Contents \cup {Nothing}
RefreshSteps == {"idle", "debounce", "ask", "retrieve", "state", "version", "goal"}

LegacyTypeOK ==
  /\ version \in 0..MaxVersion
  /\ cycle \in [at : {"idle", "stage", "commit"}, data : Data, delta : BOOLEAN]
  /\ deltaCycle \in [at : {"idle", "asked", "running", "store"},
                     from : 0..MaxVersion, to : 0..MaxVersion]
  /\ IsMap(staged, Versions, Contents)
  /\ IsMap(blobs, Versions, Contents)
  /\ latest \in 0..MaxVersion
  /\ state \in Data
  /\ consumerVersion \in 0..MaxVersion
  /\ refresh \in [Refreshers -> [at : RefreshSteps, version : 0..MaxVersion,
                                 data : Data, goal : 0..MaxVersion]]
  /\ overlapped \in BOOLEAN
  /\ failures \in 0..MaxFailures /\ restarts \in 0..MaxRestarts

(* Whoever is told a latest version can retrieve it (Store.Latest and      *)
(* Store.Retrieve against the two steps of RunCycle).                      *)
LatestIsRetrievable ==
  /\ latest # 0 => latest \in DOMAIN blobs
  /\ \A r \in Refreshers : refresh[r].at = "retrieve" => refresh[r].version \in DOMAIN blobs

(* One producer never overwrites a version it committed (RunCycle's        *)
(* version.Add, also after cycles that failed).                            *)
CommittedNeverChanges ==
  [][restarts' = 0 =>
       \A v \in DOMAIN blobs : v \in DOMAIN blobs' /\ blobs'[v] = blobs[v]]_legacyVars

(* While nobody refreshes, CurrentVersion is the version whose data        *)
(* ReadState returns, unless refreshes have overlapped (Refresh's two      *)
(* stores).                                                                *)
ReadIsConsistent ==
  (restarts = 0 /\ ~overlapped /\ \A r \in Refreshers : Quiet(r)) =>
    \/ consumerVersion = 0 /\ state = Nothing
    \/ consumerVersion \in DOMAIN blobs /\ state = blobs[consumerVersion]

(* The same, and that the consumer does not go back to an older version,   *)
(* of refreshes that do overlap.                                           *)
OverlappingReadIsConsistent ==
  (restarts = 0 /\ consumerVersion # 0 /\ \A r \in Refreshers : Quiet(r)) =>
    state = blobs[consumerVersion]

NeverGoesBack == [][consumerVersion' >= consumerVersion]_legacyVars

(* A delta leads from the start, or from a committed version, to a newer   *)
(* committed version, past the numbers of cycles that failed, unless a     *)
(* producer starts over (RunDeltaCycle's call of Latest, before it runs    *)
(* the cycle).                                                             *)
DeltasLinkVersions ==
  restarts = 0 => \A d \in DOMAIN deltas :
    d[1] < d[2] /\ d[1] \in {0} \cup DOMAIN blobs /\ d[2] \in DOMAIN blobs

(* A delta changes the data of its first version into that of its second   *)
(* (RunDeltaCycle: "runs a production cycle and computes deltas").         *)
DeltasDescribeChanges ==
  \A d \in DOMAIN deltas :
    d[1] # 0 => Apply(deltas[d], blobs[d[1]], blobs[d[2]]) = blobs[d[2]]

(* Between any two committed data sets: the diff is valid, it is empty     *)
(* only if they are equal, and applied to the first with the values of the *)
(* second it gives the second (DiffData, Apply, ValidateDelta).            *)
DiffRoundTrips ==
  \A v, w \in DOMAIN blobs :
    LET d == DiffData(blobs[v], blobs[w])
    IN /\ ValidateDelta(d)
       /\ d = NoDiff <=> blobs[v] = blobs[w]
       /\ Apply(d, blobs[v], blobs[w]) = blobs[w]

(* The same with DeltaConsumer.ApplyDelta, which has the base only.        *)
DeltaAppliesToBase ==
  \A v, w \in DOMAIN blobs :
    ApplyDelta(blobs[v], DiffData(blobs[v], blobs[w])) = blobs[w]
=============================================================================
