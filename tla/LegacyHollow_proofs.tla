------------------------- MODULE LegacyHollow_proofs ------------------------
(***************************************************************************)
(* Proofs about LegacyHollow for every value of its constants.             *)
(***************************************************************************)
EXTENDS LegacyHollow, TLAPS

(***************************************************************************)
(* Diffs                                                                   *)
(***************************************************************************)

(* DiffData is valid, is empty only between equal maps, and Apply with the *)
(* new map's values gives the new map.                                     *)
LEMMA DiffIsExact ==
  ASSUME NEW old, old = [k \in DOMAIN old |-> old[k]],
         NEW new, new = [k \in DOMAIN new |-> new[k]]
  PROVE  LET d == DiffData(old, new)
         IN /\ ValidateDelta(d)
            /\ d = NoDiff <=> old = new
            /\ Apply(d, old, new) = new
<1> DEFINE d == DiffData(old, new)
<1>1. /\ d.added = DOMAIN new \ DOMAIN old
      /\ d.changed = {k \in DOMAIN new \cap DOMAIN old : old[k] # new[k]}
      /\ d.removed = DOMAIN old \ DOMAIN new
  BY DEF DiffData
<1> HIDE DEF d
<1>2. ValidateDelta(d)
  BY <1>1 DEF ValidateDelta
<1>3. d = NoDiff <=> old = new
  <2>1. ASSUME d = NoDiff PROVE old = new
    <3>1. d.added = {} /\ d.changed = {} /\ d.removed = {}
      BY <2>1 DEF NoDiff
    <3>2. DOMAIN old = DOMAIN new
      BY <3>1, <1>1
    <3>3. \A k \in DOMAIN new : old[k] = new[k]
      BY <3>1, <3>2, <1>1
    <3> QED BY <3>2, <3>3
  <2>2. ASSUME old = new PROVE d = NoDiff
    BY <2>2 DEF d, DiffData, NoDiff
  <2> QED BY <2>1, <2>2
<1>4. Apply(d, old, new) = new
  <2> DEFINE written == (d.added \cup d.changed) \cap DOMAIN new
             kept == (DOMAIN old \cup written) \ d.removed
  <2>1. kept = DOMAIN new
    BY <1>1
  <2>2. \A k \in kept : (IF k \in written THEN new[k] ELSE old[k]) = new[k]
    BY <1>1, <2>1
  <2>3. Apply(d, old, new) = [k \in kept |-> IF k \in written THEN new[k] ELSE old[k]]
    BY DEF Apply
  <2> HIDE DEF written, kept
  <2>4. [k \in kept |-> IF k \in written THEN new[k] ELSE old[k]] = [k \in kept |-> new[k]]
    BY <2>2
  <2> QED BY <2>1, <2>3, <2>4
<1> QED BY <1>2, <1>3, <1>4 DEF d

(***************************************************************************)
(* The inductive invariant                                                 *)
(***************************************************************************)

(* What is latest, or about to be retrieved, staged or committed, is there.*)
IsThere ==
  /\ latest # 0 => latest \in DOMAIN blobs
  /\ cycle.at = "stage" => cycle.data \in Contents /\ version # 0
  /\ cycle.at = "commit" => version \in DOMAIN staged
  /\ \A r \in Refreshers : refresh[r].at = "retrieve" => refresh[r].version \in DOMAIN blobs

(* The first producer's number is above what it has committed, and is new  *)
(* while its cycle lasts.                                                  *)
NumberIsNew ==
  restarts = 0 =>
    /\ \A v \in DOMAIN blobs : v <= version
    /\ cycle.at # "idle" => version \notin DOMAIN blobs

(* A refresh without another beside it has the data of its version, and    *)
(* the consumer's data and number fit, or will once it has written the     *)
(* number.                                                                 *)
Fits(v, data) == v \in DOMAIN blobs /\ data = blobs[v]

LoneRefresh ==
  (restarts = 0 /\ ~overlapped) =>
    /\ \A r, s \in Refreshers : r = s \/ Quiet(r) \/ Quiet(s)
    /\ \A r \in Refreshers : refresh[r].goal = 0
    /\ \A r \in Refreshers : refresh[r].at # "goal"
    /\ \A r \in Refreshers :
         refresh[r].at \in {"state", "version"} => Fits(refresh[r].version, refresh[r].data)
    /\ \A r \in Refreshers : refresh[r].at = "version" => state = refresh[r].data
    /\ (\A r \in Refreshers : refresh[r].at # "version") =>
         \/ consumerVersion = 0 /\ state = Nothing
         \/ Fits(consumerVersion, state)

LegacyInv == LegacyTypeOK /\ IsThere /\ NumberIsNew /\ LoneRefresh

(* With adds or replaces one value.                                        *)
LEMMA WithIsMap ==
  ASSUME NEW D, NEW T, NEW f, IsMap(f, D, T), NEW x \in D, NEW y \in T
  PROVE  /\ IsMap(With(f, x, y), D, T)
         /\ DOMAIN With(f, x, y) = DOMAIN f \cup {x}
         /\ With(f, x, y)[x] = y
         /\ \A z \in DOMAIN f : z # x => With(f, x, y)[z] = f[z]
  BY DEF IsMap, With

LEMMA EmptyIsMap ==
  ASSUME NEW D, NEW T
  PROVE  IsMap(Nothing, D, T) /\ DOMAIN Nothing = {}
  BY DEF IsMap, Nothing

(***************************************************************************)
(* Types                                                                   *)
(***************************************************************************)

LEMMA TypeInit == LegacyInit => LegacyTypeOK
<1> SUFFICES ASSUME LegacyInit PROVE LegacyTypeOK
  OBVIOUS
<1>1. IsMap(staged, Versions, Contents) /\ IsMap(blobs, Versions, Contents)
  BY EmptyIsMap DEF LegacyInit
<1>2. Nothing \in Data
  BY DEF Data
<1>3. cycle \in [at : {"idle", "stage", "commit"}, data : Data, delta : BOOLEAN]
  BY <1>2 DEF LegacyInit, NoCycle
<1>4. deltaCycle \in [at : {"idle", "asked", "running", "store"},
                     from : 0..MaxVersion, to : 0..MaxVersion]
  BY BoundsAssumption DEF LegacyInit, NoDeltaCycle
<1>5. NotRefreshing \in [at : RefreshSteps, version : 0..MaxVersion,
                        data : Data, goal : 0..MaxVersion]
  BY <1>2, BoundsAssumption DEF NotRefreshing, RefreshSteps
<1>6. refresh \in [Refreshers -> [at : RefreshSteps, version : 0..MaxVersion,
                                 data : Data, goal : 0..MaxVersion]]
  BY <1>5 DEF LegacyInit
<1>7. overlapped \in BOOLEAN
  BY DEF LegacyInit
<1>8. /\ version \in 0..MaxVersion /\ latest \in 0..MaxVersion
      /\ consumerVersion \in 0..MaxVersion
      /\ failures \in 0..MaxFailures /\ restarts \in 0..MaxRestarts
  BY BoundsAssumption DEF LegacyInit
<1>9. state \in Data
  BY <1>2 DEF LegacyInit
<1> QED
  BY <1>1, <1>3, <1>4, <1>6, <1>7, <1>8, <1>9 DEF LegacyTypeOK

LEMMA TypeProducer == LegacyTypeOK /\ IsThere /\ ProducerNext => LegacyTypeOK'
<1> SUFFICES ASSUME LegacyTypeOK, IsThere, ProducerNext PROVE LegacyTypeOK'
  OBVIOUS
<1> USE BoundsAssumption
<1>1. CASE RunDeltaCycle
  BY <1>1 DEF LegacyTypeOK, RunDeltaCycle, storeVars, consumerVars
<1>2. CASE RunCycle
  <2>1. PICK data \in Contents, delta \in BOOLEAN :
          /\ version < MaxVersion
          /\ version' = version + 1
          /\ cycle' = [at |-> "stage", data |-> data, delta |-> delta]
          /\ deltaCycle' = IF delta THEN [deltaCycle EXCEPT !.at = "running"] ELSE deltaCycle
          /\ UNCHANGED <<deltas, storeVars, consumerVars, failures, restarts>>
    BY <1>2 DEF RunCycle
  <2>2. cycle' \in [at : {"idle", "stage", "commit"}, data : Data, delta : BOOLEAN]
    BY <2>1 DEF Data
  <2> QED
    BY <2>1, <2>2 DEF LegacyTypeOK, storeVars, consumerVars
<1>3. CASE Stage
  <2>1. version \in Versions /\ cycle.data \in Contents
    BY <1>3 DEF Stage, LegacyTypeOK, IsThere, Versions
  <2>2. IsMap(With(staged, version, cycle.data), Versions, Contents)
    BY <2>1, WithIsMap DEF LegacyTypeOK
  <2> QED
    BY <1>3, <2>2 DEF LegacyTypeOK, Stage, consumerVars
<1>4. CASE Commit
  <2>1. version \in Versions /\ staged[version] \in Contents
    BY <1>4 DEF Commit, LegacyTypeOK, IsThere, IsMap
  <2>2. IsMap(With(blobs, version, staged[version]), Versions, Contents)
    BY <2>1, WithIsMap DEF LegacyTypeOK
  <2>3. IsMap([v \in DOMAIN staged \ {version} |-> staged[v]], Versions, Contents)
    BY DEF LegacyTypeOK, IsMap
  <2>4. latest' \in 0..MaxVersion
    BY <1>4 DEF Commit, LegacyTypeOK
  <2>5. NoCycle \in [at : {"idle", "stage", "commit"}, data : Data, delta : BOOLEAN]
    BY DEF NoCycle, Data
  <2> QED
    BY <1>4, <2>2, <2>3, <2>4, <2>5 DEF LegacyTypeOK, Commit, consumerVars
<1>5. CASE CycleFails
  <2>1. NoCycle \in [at : {"idle", "stage", "commit"}, data : Data, delta : BOOLEAN]
    BY DEF NoCycle, Data
  <2> QED
    BY <1>5, <2>1 DEF LegacyTypeOK, CycleFails, CanFail, storeVars, consumerVars, NoDeltaCycle
<1>6. CASE StoreDelta
  BY <1>6 DEF LegacyTypeOK, StoreDelta, storeVars, consumerVars, NoDeltaCycle
<1>7. CASE NewProducer
  <2>1. NoCycle \in [at : {"idle", "stage", "commit"}, data : Data, delta : BOOLEAN]
    BY DEF NoCycle, Data
  <2> QED
    BY <1>7, <2>1 DEF LegacyTypeOK, NewProducer, storeVars, consumerVars, NoDeltaCycle
<1> QED BY <1>1, <1>2, <1>3, <1>4, <1>5, <1>6, <1>7 DEF ProducerNext

(* What a step of r's refresh does to the consumer, and that it leaves the *)
(* producer and the store alone.                                           *)
RefreshNext(r) ==
  \/ CallRefresh(r) \/ RefreshStep(r) \/ RefreshFails(r)
  \/ r \in DeltaRefreshers /\ CallRefreshWithDelta(r)

LEMMA NextCases ==
  LegacyNext => ProducerNext \/ \E r \in Refreshers : RefreshNext(r)
  BY LegacyAssumption DEF LegacyNext, RefreshNext

LEMMA RefreshLeavesStore ==
  ASSUME NEW r \in Refreshers, RefreshNext(r)
  PROVE  UNCHANGED <<producerVars, storeVars, restarts>>
  BY DEF RefreshNext, CallRefresh, RefreshStep, RefreshFails, CallRefreshWithDelta,
     Ask, Retrieve, SetState, SetVersion, SetGoal, RefreshOnly

LEMMA TypeRefresh ==
  ASSUME LegacyTypeOK, IsThere, NEW r \in Refreshers, RefreshNext(r)
  PROVE  LegacyTypeOK'
<1> DEFINE Refresh == [at : RefreshSteps, version : 0..MaxVersion,
                       data : Data, goal : 0..MaxVersion]
<1> USE BoundsAssumption
<1>1. UNCHANGED <<version, cycle, deltaCycle, staged, blobs, latest, restarts>>
  BY RefreshLeavesStore DEF producerVars, storeVars
<1>2. Nothing \in Data
  BY DEF Data
<1>3. NotRefreshing \in Refresh
  BY <1>2 DEF NotRefreshing, RefreshSteps
<1>4. refresh \in [Refreshers -> Refresh]
  BY DEF LegacyTypeOK
<1>5. SUFFICES /\ refresh' \in [Refreshers -> Refresh]
               /\ state' \in Data
               /\ consumerVersion' \in 0..MaxVersion
               /\ failures' \in 0..MaxFailures
               /\ overlapped' \in BOOLEAN
  BY <1>1 DEF LegacyTypeOK
<1>6. ASSUME NEW step \in RefreshSteps, To(r, step)
      PROVE  refresh' \in [Refreshers -> Refresh]
  BY <1>4, <1>6 DEF To
<1>7. ASSUME Returns(r)
      PROVE  refresh' \in [Refreshers -> Refresh]
  BY <1>3, <1>4, <1>7 DEF Returns
<1>8. CASE CallRefresh(r)
  <2>1. refresh' \in [Refreshers -> Refresh]
    BY <1>8, <1>6 DEF CallRefresh, RefreshSteps
  <2>2. overlapped' \in BOOLEAN
    BY <1>8 DEF CallRefresh, Overlaps
  <2> QED BY <1>8, <2>1, <2>2 DEF CallRefresh, LegacyTypeOK
<1>9. CASE CallRefreshWithDelta(r)
  <2>1. [NotRefreshing EXCEPT !.at = "ask", !.goal = latest] \in Refresh
    BY <1>3 DEF LegacyTypeOK, RefreshSteps
  <2>2. refresh' \in [Refreshers -> Refresh]
    BY <1>9, <1>4, <2>1 DEF CallRefreshWithDelta
  <2>3. overlapped' \in BOOLEAN
    BY <1>9 DEF CallRefreshWithDelta
  <2> QED BY <1>9, <2>2, <2>3 DEF CallRefreshWithDelta, LegacyTypeOK
<1>10. CASE Ask(r)
  <2>1. ASSUME refresh' = [refresh EXCEPT ![r].at = "retrieve", ![r].version = latest]
        PROVE  refresh' \in [Refreshers -> Refresh]
    BY <2>1, <1>4 DEF LegacyTypeOK, RefreshSteps
  <2>2. refresh' \in [Refreshers -> Refresh]
    BY <1>10, <1>7, <2>1 DEF Ask
  <2> QED BY <1>10, <2>2 DEF Ask, LegacyTypeOK
<1>11. CASE Retrieve(r)
  <2>1. blobs[refresh[r].version] \in Data
    BY <1>11 DEF Retrieve, LegacyTypeOK, IsMap, Data
  <2>2. refresh' \in [Refreshers -> Refresh]
    BY <1>11, <1>4, <2>1 DEF Retrieve, RefreshSteps
  <2> QED BY <1>11, <2>2 DEF Retrieve, LegacyTypeOK
<1>12. CASE RefreshFails(r)
  <2>1. refresh' \in [Refreshers -> Refresh]
    BY <1>12, <1>7 DEF RefreshFails
  <2>2. failures' \in 0..MaxFailures
    BY <1>12 DEF RefreshFails, CanFail, LegacyTypeOK
  <2> QED BY <1>12, <2>1, <2>2 DEF RefreshFails, LegacyTypeOK
<1>13. CASE SetState(r)
  <2>1. refresh' \in [Refreshers -> Refresh]
    BY <1>13, <1>6 DEF SetState, RefreshSteps
  <2>2. state' \in Data
    BY <1>13, <1>4 DEF SetState
  <2> QED BY <1>13, <2>1, <2>2 DEF SetState, LegacyTypeOK
<1>14. CASE SetVersion(r)
  <2>1. refresh' \in [Refreshers -> Refresh]
    BY <1>14, <1>6, <1>7 DEF SetVersion, RefreshSteps
  <2>2. consumerVersion' \in 0..MaxVersion
    BY <1>14, <1>4 DEF SetVersion
  <2> QED BY <1>14, <2>1, <2>2 DEF SetVersion, LegacyTypeOK
<1>15. CASE SetGoal(r)
  <2>1. refresh' \in [Refreshers -> Refresh]
    BY <1>15, <1>7 DEF SetGoal
  <2>2. consumerVersion' \in 0..MaxVersion
    BY <1>15, <1>4 DEF SetGoal
  <2> QED BY <1>15, <2>1, <2>2 DEF SetGoal, LegacyTypeOK
<1> QED
  BY <1>8, <1>9, <1>10, <1>11, <1>12, <1>13, <1>14, <1>15 DEF RefreshNext, RefreshStep

RefreshRecord == [at : RefreshSteps, version : 0..MaxVersion,
                  data : Data, goal : 0..MaxVersion]

LEMMA RecordFields ==
  ASSUME NEW now \in RefreshRecord, NEW step
  PROVE  LET next == [now EXCEPT !.at = step]
         IN /\ next.at = step /\ next.version = now.version
            /\ next.data = now.data /\ next.goal = now.goal
  BY DEF RefreshRecord

(* The same, step by step, in terms of r's own record.                     *)
Same == UNCHANGED <<state, consumerVersion, overlapped>>

Effect(r) ==
  LET now == refresh[r]  next == refresh'[r]
  IN \/ /\ now.at = "idle" /\ next = [now EXCEPT !.at = "ask"]
        /\ Overlaps(r) /\ UNCHANGED <<state, consumerVersion>>
     \/ /\ next.at = "ask" /\ overlapped' = TRUE
     \/ /\ now.at \in {"ask", "retrieve"} /\ next = NotRefreshing /\ Same
     \/ /\ now.at = "ask" /\ latest # 0 /\ Same
        /\ next = [now EXCEPT !.at = "retrieve", !.version = latest]
     \/ /\ now.at = "retrieve" /\ now.version \in DOMAIN blobs /\ Same
        /\ next = [now EXCEPT !.at = "state", !.data = blobs[now.version]]
     \/ /\ now.at = "state" /\ next = [now EXCEPT !.at = "version"]
        /\ state' = now.data /\ UNCHANGED <<consumerVersion, overlapped>>
     \/ /\ now.at = "version" /\ consumerVersion' = now.version
        /\ next = IF now.goal = 0 THEN NotRefreshing ELSE [now EXCEPT !.at = "goal"]
        /\ UNCHANGED <<state, overlapped>>
     \/ /\ now.at = "goal" /\ consumerVersion' = now.goal
        /\ next = NotRefreshing /\ UNCHANGED <<state, overlapped>>

LEMMA RefreshEffect ==
  ASSUME LegacyTypeOK, NEW r \in Refreshers, RefreshNext(r)
  PROVE  /\ Effect(r)
         /\ \A s \in Refreshers : s # r => refresh'[s] = refresh[s]
<1>1. refresh \in [Refreshers -> [at : RefreshSteps, version : 0..MaxVersion,
                                 data : Data, goal : 0..MaxVersion]]
  BY DEF LegacyTypeOK
<1>2. ASSUME NEW step, To(r, step)
      PROVE  /\ refresh'[r] = [refresh[r] EXCEPT !.at = step]
             /\ \A s \in Refreshers : s # r => refresh'[s] = refresh[s]
  BY <1>1, <1>2 DEF To
<1>3. ASSUME Returns(r)
      PROVE  /\ refresh'[r] = NotRefreshing
             /\ \A s \in Refreshers : s # r => refresh'[s] = refresh[s]
  BY <1>1, <1>3 DEF Returns
<1>4. CASE CallRefresh(r)
  BY <1>4, <1>2 DEF CallRefresh, Effect, Quiet
<1>5. CASE CallRefreshWithDelta(r)
  BY <1>5, <1>1 DEF CallRefreshWithDelta, Effect, NotRefreshing
<1>6. CASE Ask(r)
  <2>1. CASE latest = 0
    BY <1>6, <2>1, <1>3 DEF Ask, Effect, Same
  <2>2. CASE latest # 0
    <3>1. /\ refresh'[r] = [refresh[r] EXCEPT !.at = "retrieve", !.version = latest]
          /\ \A s \in Refreshers : s # r => refresh'[s] = refresh[s]
      BY <1>6, <2>2, <1>1 DEF Ask
    <3> QED BY <1>6, <2>2, <3>1 DEF Ask, Effect, Same
  <2> QED BY <2>1, <2>2
<1>7. CASE Retrieve(r)
  <2>1. /\ refresh'[r] = [refresh[r] EXCEPT !.at = "state", !.data = blobs[refresh[r].version]]
        /\ \A s \in Refreshers : s # r => refresh'[s] = refresh[s]
    BY <1>7, <1>1 DEF Retrieve
  <2> QED BY <1>7, <2>1 DEF Retrieve, Effect, Same
<1>8. CASE RefreshFails(r)
  BY <1>8, <1>3 DEF RefreshFails, Effect, Same
<1>9. CASE SetState(r)
  BY <1>9, <1>2 DEF SetState, Effect
<1>10. CASE SetVersion(r)
  BY <1>10, <1>2, <1>3 DEF SetVersion, Effect
<1>11. CASE SetGoal(r)
  BY <1>11, <1>3 DEF SetGoal, Effect
<1> QED
  BY <1>4, <1>5, <1>6, <1>7, <1>8, <1>9, <1>10, <1>11 DEF RefreshNext, RefreshStep

(***************************************************************************)
(* What is asked for is there                                              *)
(***************************************************************************)

LEMMA StoreGrows ==
  ASSUME LegacyTypeOK, ProducerNext
  PROVE  /\ DOMAIN blobs \subseteq DOMAIN blobs'
         /\ ~Commit => UNCHANGED blobs
         /\ UNCHANGED consumerVars
<1>1. CASE Commit
  <2>1. DOMAIN blobs' = DOMAIN blobs \cup {version}
    BY <1>1 DEF Commit, With
  <2> QED BY <1>1, <2>1 DEF Commit
<1>2. CASE ~Commit
  BY <1>2 DEF ProducerNext, RunDeltaCycle, RunCycle, Stage, CycleFails, StoreDelta, NewProducer,
     storeVars
<1> QED BY <1>1, <1>2

LEMMA ThereProducer ==
  ASSUME LegacyTypeOK, IsThere, ProducerNext
  PROVE  IsThere'
<1> USE BoundsAssumption
<1>1. /\ DOMAIN blobs \subseteq DOMAIN blobs'
      /\ refresh' = refresh
  BY StoreGrows DEF consumerVars
<1>2. \A r \in Refreshers :
        refresh'[r].at = "retrieve" => refresh'[r].version \in DOMAIN blobs'
  BY <1>1 DEF IsThere
<1>3. CASE RunDeltaCycle
  BY <1>3, <1>2 DEF IsThere, RunDeltaCycle, storeVars
<1>4. CASE RunCycle
  <2>1. /\ version' # 0
        /\ cycle'.at = "stage" /\ cycle'.data \in Contents
    BY <1>4 DEF RunCycle, LegacyTypeOK
  <2> QED BY <1>4, <1>2, <2>1 DEF IsThere, RunCycle, storeVars
<1>5. CASE Stage
  <2>1. version' \in DOMAIN staged'
    BY <1>5 DEF Stage, With
  <2>2. cycle'.at = "commit"
    BY <1>5 DEF Stage, LegacyTypeOK
  <2> QED BY <1>5, <1>2, <2>1, <2>2 DEF IsThere, Stage
<1>6. CASE Commit
  <2>1. DOMAIN blobs' = DOMAIN blobs \cup {version}
    BY <1>6 DEF Commit, With
  <2>2. latest' # 0 => latest' \in DOMAIN blobs'
    BY <1>6, <2>1 DEF Commit, IsThere
  <2>3. cycle'.at = "idle"
    BY <1>6 DEF Commit, NoCycle
  <2> QED BY <1>2, <2>2, <2>3 DEF IsThere
<1>7. CASE CycleFails
  BY <1>7, <1>2 DEF IsThere, CycleFails, NoCycle, storeVars
<1>8. CASE StoreDelta
  BY <1>8, <1>2 DEF IsThere, StoreDelta, storeVars
<1>9. CASE NewProducer
  BY <1>9, <1>2 DEF IsThere, NewProducer, NoCycle, storeVars
<1> QED BY <1>3, <1>4, <1>5, <1>6, <1>7, <1>8, <1>9 DEF ProducerNext

LEMMA ThereRefresh ==
  ASSUME LegacyTypeOK, IsThere, NEW r \in Refreshers, RefreshNext(r)
  PROVE  IsThere'
<1>1. UNCHANGED <<version, cycle, staged, blobs, latest>>
  BY RefreshLeavesStore DEF producerVars, storeVars
<1>2. SUFFICES ASSUME NEW s \in Refreshers, refresh'[s].at = "retrieve"
               PROVE  refresh'[s].version \in DOMAIN blobs
  BY <1>1 DEF IsThere
<1>3. CASE refresh'[s] = refresh[s]
  BY <1>2, <1>3 DEF IsThere
<1>4. CASE refresh'[s] # refresh[s]
  <2>1. s = r /\ Effect(r)
    BY <1>4, RefreshEffect
  <2>2. refresh[r] \in RefreshRecord
    BY DEF LegacyTypeOK, RefreshRecord
  <2> DEFINE now == refresh[r]
             next == refresh'[r]
  <2>3. \/ next = [now EXCEPT !.at = "retrieve", !.version = latest] /\ latest # 0
        \/ next.at # "retrieve"
    <3>1. \A step : [now EXCEPT !.at = step].at = step
      BY <2>2, RecordFields
    <3>2. [now EXCEPT !.at = "state", !.data = blobs[now.version]].at = "state"
      BY <2>2 DEF RefreshRecord
    <3>3. NotRefreshing.at = "idle"
      BY DEF NotRefreshing
    <3> QED BY <2>1, <3>1, <3>2, <3>3 DEF Effect
  <2>4. latest # 0 /\ refresh'[s].version = latest
    BY <1>2, <2>1, <2>2, <2>3 DEF RefreshRecord
  <2> QED BY <2>4 DEF IsThere
<1> QED BY <1>3, <1>4

(***************************************************************************)
(* Numbers are new                                                         *)
(***************************************************************************)

LEMMA NumberProducer ==
  ASSUME LegacyTypeOK, NumberIsNew, ProducerNext
  PROVE  NumberIsNew'
<1> SUFFICES ASSUME restarts' = 0
             PROVE  /\ \A v \in DOMAIN blobs' : v <= version'
                    /\ cycle'.at # "idle" => version' \notin DOMAIN blobs'
  BY DEF NumberIsNew
<1> USE BoundsAssumption
<1>1. ~NewProducer
  BY DEF NewProducer, LegacyTypeOK
<1>2. restarts = 0
  BY <1>1 DEF ProducerNext, RunDeltaCycle, RunCycle, Stage, Commit, CycleFails, StoreDelta
<1>3. version \in Nat /\ \A v \in DOMAIN blobs : v \in Nat /\ v <= version
  BY <1>2 DEF NumberIsNew, LegacyTypeOK, IsMap, Versions
<1>4. CASE RunDeltaCycle
  BY <1>4, <1>2, <1>3 DEF RunDeltaCycle, NumberIsNew, storeVars
<1>5. CASE RunCycle
  BY <1>5, <1>3 DEF RunCycle, storeVars
<1>6. CASE Stage
  BY <1>6, <1>2, <1>3 DEF Stage, NumberIsNew
<1>7. CASE Commit
  <2>1. DOMAIN blobs' = DOMAIN blobs \cup {version}
    BY <1>7 DEF Commit, With
  <2> QED BY <1>7, <1>3, <2>1 DEF Commit, NoCycle
<1>8. CASE CycleFails
  BY <1>8, <1>3 DEF CycleFails, NoCycle, storeVars
<1>9. CASE StoreDelta
  BY <1>9, <1>2, <1>3 DEF StoreDelta, NumberIsNew, storeVars
<1> QED BY <1>1, <1>4, <1>5, <1>6, <1>7, <1>8, <1>9 DEF ProducerNext

LEMMA NumberRefresh ==
  ASSUME NumberIsNew, NEW r \in Refreshers, RefreshNext(r)
  PROVE  NumberIsNew'
  BY RefreshLeavesStore DEF NumberIsNew, producerVars, storeVars

(* A commit of the first producer overwrites nothing.                      *)
LEMMA CommitKeeps ==
  ASSUME LegacyTypeOK, NumberIsNew, ProducerNext, restarts' = 0
  PROVE  \A v \in DOMAIN blobs : v \in DOMAIN blobs' /\ blobs'[v] = blobs[v]
<1>1. CASE Commit
  <2>1. restarts = 0 /\ version \notin DOMAIN blobs
    BY <1>1 DEF Commit, NumberIsNew
  <2> QED BY <1>1, <2>1 DEF Commit, With
<1>2. CASE ~Commit
  BY <1>2, StoreGrows
<1> QED BY <1>1, <1>2

(***************************************************************************)
(* A refresh that is alone                                                 *)
(***************************************************************************)

LEMMA LoneProducer ==
  ASSUME LegacyTypeOK, NumberIsNew, LoneRefresh, ProducerNext
  PROVE  LoneRefresh'
<1> SUFFICES ASSUME restarts' = 0 PROVE LoneRefresh'
  BY DEF LoneRefresh
<1>1. restarts = 0
  BY BoundsAssumption DEF LegacyTypeOK, ProducerNext, RunDeltaCycle, RunCycle, Stage, Commit,
     CycleFails, StoreDelta, NewProducer
<1>2. UNCHANGED <<state, consumerVersion, refresh, overlapped>>
  BY StoreGrows DEF consumerVars
<1>3. \A v, data : Fits(v, data) => Fits(v, data)'
  BY CommitKeeps DEF Fits
<1> QED BY <1>1, <1>2, <1>3 DEF LoneRefresh, Quiet

LEMMA LoneRefreshStep ==
  ASSUME LegacyTypeOK, LoneRefresh, NEW r \in Refreshers, RefreshNext(r)
  PROVE  LoneRefresh'
<1> SUFFICES ASSUME restarts' = 0, ~overlapped' PROVE LoneRefresh'
  BY DEF LoneRefresh
<1> DEFINE now == refresh[r]
           next == refresh'[r]
<1>1. /\ UNCHANGED <<blobs, restarts>>
      /\ Effect(r)
      /\ \A s \in Refreshers : s # r => refresh'[s] = refresh[s]
  BY RefreshLeavesStore, RefreshEffect DEF producerVars, storeVars
<1>2. now \in RefreshRecord /\ overlapped \in BOOLEAN
  BY DEF LegacyTypeOK, RefreshRecord
<1>3. \A step : LET n == [now EXCEPT !.at = step]
                IN n.at = step /\ n.version = now.version /\ n.data = now.data /\ n.goal = now.goal
  BY <1>2, RecordFields
<1>4. NotRefreshing.at = "idle" /\ NotRefreshing.goal = 0
  BY DEF NotRefreshing
<1>5. ~overlapped
  BY <1>1 DEF Effect, Same, Overlaps
<1>6. LoneRefresh!2
  BY <1>1, <1>5 DEF LoneRefresh
<1>7. \A s \in Refreshers : s # r => Quiet(s) /\ Quiet(s)'
  <2>1. CASE Overlaps(r)
    BY <2>1, <1>1 DEF Overlaps, Quiet
  <2>2. CASE now.at # "idle"
    BY <2>2, <1>1, <1>6 DEF Quiet
  <2>3. Overlaps(r) \/ now.at # "idle"
    BY <1>1 DEF Effect
  <2> QED BY <2>1, <2>2, <2>3
<1>8. now.goal = 0 /\ now.at # "goal"
  BY <1>6
<1>9. next.goal = 0 /\ next.at # "goal"
  BY <1>1, <1>2, <1>3, <1>4, <1>8 DEF Effect, RefreshRecord
<1>10. next.at \in {"state", "version"} => Fits(next.version, next.data)
  <2> SUFFICES ASSUME next.at \in {"state", "version"} PROVE Fits(next.version, next.data)
    OBVIOUS
  <2>1. CASE now.at = "retrieve"
    <3>1. now.version \in DOMAIN blobs /\ next = [now EXCEPT !.at = "state", !.data = blobs[now.version]]
      BY <2>1, <1>1, <1>4 DEF Effect
    <3>2. next.version = now.version /\ next.data = blobs[now.version]
      BY <3>1, <1>2 DEF RefreshRecord
    <3> QED BY <3>1, <3>2 DEF Fits
  <2>2. CASE now.at # "retrieve"
    <3>1. now.at = "state" /\ next = [now EXCEPT !.at = "version"]
      BY <2>2, <1>1, <1>2, <1>4, <1>5, <1>8 DEF Effect, RefreshRecord
    <3>2. Fits(now.version, now.data)
      BY <3>1, <1>6
    <3>3. next.version = now.version /\ next.data = now.data
      BY <3>1, <1>3
    <3> QED BY <3>2, <3>3
  <2> QED BY <2>1, <2>2
<1>11. next.at = "version" => state' = next.data
  BY <1>1, <1>2, <1>3, <1>4, <1>8 DEF Effect, RefreshRecord
<1>12. next.at # "version" => \/ consumerVersion' = 0 /\ state' = Nothing
                             \/ Fits(consumerVersion', state')
  <2> SUFFICES ASSUME next.at # "version"
               PROVE  \/ consumerVersion' = 0 /\ state' = Nothing
                      \/ Fits(consumerVersion', state')
    OBVIOUS
  <2>1. CASE now.at = "version"
    BY <2>1, <1>1, <1>3, <1>6, <1>8, <1>5 DEF Effect, Fits
  <2>2. CASE now.at # "version"
    <3>1. UNCHANGED <<state, consumerVersion>>
      BY <2>2, <1>1, <1>3, <1>8 DEF Effect, Same
    <3>2. \A s \in Refreshers : refresh[s].at # "version"
      BY <2>2, <1>7 DEF Quiet
    <3> QED BY <3>1, <3>2, <1>6 DEF Fits
  <2> QED BY <2>1, <2>2
<1>13. \A s \in Refreshers : s # r => refresh'[s].at = "idle" /\ refresh'[s].goal = 0
  BY <1>1, <1>6, <1>7 DEF Quiet
<1>14. \A q, s \in Refreshers : q = s \/ Quiet(q)' \/ Quiet(s)'
  BY <1>13 DEF Quiet
<1>15. \A s \in Refreshers : refresh'[s].goal = 0 /\ refresh'[s].at # "goal"
  BY <1>9, <1>13
<1>16. \A s \in Refreshers :
         refresh'[s].at \in {"state", "version"} => Fits(refresh[s].version, refresh[s].data)'
  BY <1>1, <1>10, <1>13 DEF Fits
<1>17. \A s \in Refreshers : refresh'[s].at = "version" => state' = refresh'[s].data
  BY <1>11, <1>13
<1>18. (\A s \in Refreshers : refresh'[s].at # "version") =>
         \/ consumerVersion' = 0 /\ state' = Nothing
         \/ Fits(consumerVersion, state)'
  BY <1>1, <1>12 DEF Fits
<1> QED BY <1>14, <1>15, <1>16, <1>17, <1>18 DEF LoneRefresh

(***************************************************************************)
(* The theorems                                                            *)
(***************************************************************************)

LEMMA LegacyInvInit == LegacyInit => LegacyInv
<1> SUFFICES ASSUME LegacyInit PROVE LegacyInv
  OBVIOUS
<1>1. LegacyTypeOK
  BY TypeInit
<1>2. /\ latest = 0 /\ consumerVersion = 0 /\ state = Nothing
      /\ cycle.at = "idle"
      /\ \A r \in Refreshers : refresh[r].at = "idle" /\ refresh[r].goal = 0
      /\ DOMAIN blobs = {}
  BY EmptyIsMap DEF LegacyInit, NoCycle, NotRefreshing
<1>3. IsThere /\ NumberIsNew
  BY <1>2 DEF IsThere, NumberIsNew
<1>4. LoneRefresh
  BY <1>2 DEF LoneRefresh, Quiet
<1> QED BY <1>1, <1>3, <1>4 DEF LegacyInv

LEMMA LegacyInvStep == LegacyInv /\ [LegacyNext]_legacyVars => LegacyInv'
<1> SUFFICES ASSUME LegacyInv, [LegacyNext]_legacyVars PROVE LegacyInv'
  OBVIOUS
<1> USE DEF LegacyInv
<1>1. CASE ProducerNext
  BY <1>1, TypeProducer, ThereProducer, NumberProducer, LoneProducer
<1>2. ASSUME NEW r \in Refreshers, RefreshNext(r) PROVE LegacyInv'
  BY <1>2, TypeRefresh, ThereRefresh, NumberRefresh, LoneRefreshStep
<1>3. CASE UNCHANGED legacyVars
  <2>1. /\ UNCHANGED <<version, cycle, deltaCycle, deltas, staged, blobs, latest>>
        /\ UNCHANGED <<state, consumerVersion, refresh, overlapped, failures, restarts>>
    BY <1>3 DEF legacyVars, producerVars, storeVars, consumerVars
  <2>2. LegacyTypeOK'
    BY <2>1 DEF LegacyTypeOK
  <2>3. IsThere' /\ NumberIsNew'
    BY <2>1 DEF IsThere, NumberIsNew
  <2>4. LoneRefresh'
    BY <2>1 DEF LoneRefresh, Quiet, Fits
  <2> QED BY <2>2, <2>3, <2>4
<1> QED BY <1>1, <1>2, <1>3, NextCases

LEMMA LegacyInvariant == LegacySpec => []LegacyInv
  BY LegacyInvInit, LegacyInvStep, PTL DEF LegacySpec

(* Every variable of the legacy producer, store and consumer keeps its     *)
(* type, in particular a cycle only commits what it staged.                *)
THEOREM LegacyTypes == LegacySpec => []LegacyTypeOK
<1>1. LegacyInv => LegacyTypeOK
  BY DEF LegacyInv
<1> QED BY <1>1, LegacyInvariant, PTL

(* Store.Latest never names a version that Store.Retrieve does not find,   *)
(* also when it was asked before and the producer went on, failed or was   *)
(* replaced since.                                                         *)
THEOREM LatestCanBeRetrieved == LegacySpec => []LatestIsRetrievable
<1>1. LegacyInv => LatestIsRetrievable
  BY DEF LegacyInv, IsThere, LatestIsRetrievable
<1> QED BY <1>1, LegacyInvariant, PTL

(* RunCycle never overwrites a version it committed, however many of its   *)
(* cycles failed in between, until a new producer counts from 0.           *)
THEOREM CommittedStays == LegacySpec => CommittedNeverChanges
<1> DEFINE Keeps == restarts' = 0 =>
                      \A v \in DOMAIN blobs : v \in DOMAIN blobs' /\ blobs'[v] = blobs[v]
<1>1. LegacyInv /\ [LegacyNext]_legacyVars => [Keeps]_legacyVars
  <2> SUFFICES ASSUME LegacyInv, LegacyNext PROVE Keeps
    OBVIOUS
  <2>1. CASE ProducerNext
    BY <2>1, CommitKeeps DEF LegacyInv
  <2>2. ASSUME NEW r \in Refreshers, RefreshNext(r) PROVE Keeps
    BY <2>2, RefreshLeavesStore DEF storeVars
  <2> QED BY <2>1, <2>2, NextCases
<1> HIDE DEF Keeps
<1>2. LegacySpec => [][Keeps]_legacyVars
  BY <1>1, LegacyInvariant, PTL DEF LegacySpec
<1> QED BY <1>2 DEF CommittedNeverChanges, Keeps

(* As long as calls of Consumer.Refresh do not overlap, and none of them   *)
(* comes from RefreshWithDelta, CurrentVersion and ReadState agree between *)
(* them, whatever one producer does meanwhile.                             *)
THEOREM LoneReadIsConsistent == LegacySpec => []ReadIsConsistent
<1>1. LegacyInv => ReadIsConsistent
  BY DEF LegacyInv, LoneRefresh, ReadIsConsistent, Quiet, Fits
<1> QED BY <1>1, LegacyInvariant, PTL

(* Between any two versions in the store, whatever the data: DiffData is   *)
(* valid, empty only between equal data, and Apply turns the one into the  *)
(* other.                                                                  *)
THEOREM DiffsRoundTrip == LegacySpec => []DiffRoundTrips
<1>1. LegacyInv => DiffRoundTrips
  <2> SUFFICES ASSUME LegacyInv, NEW v \in DOMAIN blobs, NEW w \in DOMAIN blobs
               PROVE  LET d == DiffData(blobs[v], blobs[w])
                      IN /\ ValidateDelta(d)
                         /\ d = NoDiff <=> blobs[v] = blobs[w]
                         /\ Apply(d, blobs[v], blobs[w]) = blobs[w]
    BY DEF DiffRoundTrips
  <2>1. blobs[v] \in Contents /\ blobs[w] \in Contents
    BY DEF LegacyInv, LegacyTypeOK, IsMap
  <2> QED BY <2>1, ContentsAssumption, DiffIsExact
<1> QED BY <1>1, LegacyInvariant, PTL

(***************************************************************************)
(* What deltas lead from and to                                            *)
(***************************************************************************)

(* The version a RunDeltaCycle found is committed, and below the number    *)
(* that its RunCycle takes; what it hands on is committed, too.            *)
Committed == {0} \cup DOMAIN blobs
DeltaFits ==
  restarts = 0 =>
    /\ deltaCycle.at # "idle" => deltaCycle.from \in Committed
    /\ deltaCycle.at = "running" => deltaCycle.from < version
    /\ cycle.at # "idle" /\ cycle.delta => deltaCycle.at = "running"
    /\ deltaCycle.at = "store" => deltaCycle.from < deltaCycle.to /\ deltaCycle.to \in DOMAIN blobs
    /\ \A d \in DOMAIN deltas : d[1] < d[2] /\ d[1] \in Committed /\ d[2] \in DOMAIN blobs

LEMMA DeltaProducer ==
  ASSUME LegacyInv, DeltaFits, ProducerNext
  PROVE  DeltaFits'
<1> SUFFICES ASSUME restarts' = 0 PROVE DeltaFits'
  BY DEF DeltaFits
<1> USE BoundsAssumption
<1>1. /\ LegacyTypeOK /\ IsThere /\ NumberIsNew
      /\ ~NewProducer
  BY DEF LegacyInv, LegacyTypeOK, NewProducer
<1>2. restarts = 0
  BY <1>1 DEF ProducerNext, RunDeltaCycle, RunCycle, Stage, Commit, CycleFails, StoreDelta
<1>3. /\ Committed \subseteq Committed' /\ DOMAIN blobs \subseteq DOMAIN blobs'
      /\ version \in Nat /\ \A v \in Committed : v \in Nat /\ v <= version
  BY <1>1, <1>2, StoreGrows DEF Committed, NumberIsNew, LegacyTypeOK, IsMap, Versions
<1>4. /\ deltaCycle.from \in Nat /\ deltaCycle.to \in Nat
      /\ deltaCycle = [at |-> deltaCycle.at, from |-> deltaCycle.from, to |-> deltaCycle.to]
      /\ cycle = [at |-> cycle.at, data |-> cycle.data, delta |-> cycle.delta]
      /\ cycle.delta \in BOOLEAN
  BY <1>1 DEF LegacyTypeOK
<1>5. CASE RunDeltaCycle
  <2>1. latest \in Committed
    BY <1>1 DEF IsThere, Committed
  <2> QED BY <1>2, <1>3, <1>5, <2>1 DEF RunDeltaCycle, DeltaFits, storeVars, Committed
<1>6. CASE RunCycle
  <2>1. PICK delta \in BOOLEAN :
          /\ cycle.at = "idle" /\ version' = version + 1
          /\ delta => deltaCycle.at = "asked"
          /\ cycle'.delta = delta
          /\ deltaCycle' = IF delta THEN [deltaCycle EXCEPT !.at = "running"] ELSE deltaCycle
          /\ UNCHANGED <<deltas, storeVars, restarts>>
    BY <1>6 DEF RunCycle
  <2>2. CASE delta
    <3>1. deltaCycle'.at = "running" /\ deltaCycle'.from = deltaCycle.from
      BY <1>4, <2>1, <2>2
    <3>2. deltaCycle.from \in Committed
      BY <1>2, <2>1, <2>2 DEF DeltaFits
    <3> QED BY <1>2, <1>3, <2>1, <3>1, <3>2 DEF DeltaFits, Committed, storeVars
  <2>3. CASE ~delta
    <3>1. deltaCycle' = deltaCycle /\ ~cycle'.delta
      BY <2>1, <2>3
    <3>2. deltaCycle.at = "running" => deltaCycle.from < version'
      BY <1>2, <1>3, <1>4, <2>1 DEF DeltaFits
    <3> QED BY <1>2, <2>1, <3>1, <3>2 DEF DeltaFits, Committed, storeVars
  <2> QED BY <2>2, <2>3
<1>7. CASE Stage
  <2>1. cycle'.delta = cycle.delta /\ cycle.at # "idle"
    BY <1>4, <1>7 DEF Stage
  <2> QED BY <1>2, <1>7, <2>1 DEF Stage, DeltaFits, Committed
<1>8. CASE Commit
  <2>1. /\ DOMAIN blobs' = DOMAIN blobs \cup {version} /\ UNCHANGED <<version, deltas, restarts>>
        /\ cycle.at = "commit" /\ cycle'.at = "idle"
        /\ deltaCycle' = IF cycle.delta THEN [deltaCycle EXCEPT !.at = "store", !.to = version]
                         ELSE deltaCycle
    BY <1>8 DEF Commit, With, NoCycle
  <2>2. \A d \in DOMAIN deltas : d[1] < d[2] /\ d[1] \in Committed' /\ d[2] \in DOMAIN blobs'
    BY <1>2, <1>3 DEF DeltaFits
  <2>3. CASE cycle.delta
    <3>1. /\ deltaCycle'.at = "store" /\ deltaCycle'.to = version
          /\ deltaCycle'.from = deltaCycle.from
      BY <1>4, <2>1, <2>3
    <3>2. deltaCycle.from < version /\ deltaCycle.from \in Committed
      BY <1>2, <2>1, <2>3 DEF DeltaFits
    <3> QED BY <1>3, <2>1, <2>2, <3>1, <3>2 DEF DeltaFits
  <2>4. CASE ~cycle.delta
    <3>1. deltaCycle' = deltaCycle
      BY <2>1, <2>4
    <3> QED BY <1>2, <1>3, <2>1, <2>2, <3>1 DEF DeltaFits
  <2> QED BY <2>3, <2>4
<1>9. CASE CycleFails
  BY <1>2, <1>9 DEF CycleFails, DeltaFits, Committed, NoCycle, NoDeltaCycle, storeVars
<1>10. CASE StoreDelta
  <2>1. /\ UNCHANGED <<version, cycle, blobs, restarts>>
        /\ DOMAIN deltas' = DOMAIN deltas \cup {<<deltaCycle.from, deltaCycle.to>>}
        /\ deltaCycle'.at = "idle" /\ deltaCycle.at = "store"
    BY <1>10 DEF StoreDelta, With, storeVars, NoDeltaCycle
  <2>2. /\ deltaCycle.from \in Committed /\ deltaCycle.from < deltaCycle.to
        /\ deltaCycle.to \in DOMAIN blobs
        /\ cycle.at = "idle" \/ ~cycle.delta
    BY <1>2, <2>1 DEF DeltaFits
  <2>3. \A d \in DOMAIN deltas' : d[1] < d[2] /\ d[1] \in Committed /\ d[2] \in DOMAIN blobs
    BY <1>2, <2>1, <2>2 DEF DeltaFits
  <2> QED BY <1>2, <2>1, <2>2, <2>3 DEF DeltaFits, Committed
<1> QED BY <1>1, <1>5, <1>6, <1>7, <1>8, <1>9, <1>10 DEF ProducerNext

(* A delta of RunDeltaCycle leads from the version that was the latest     *)
(* when it asked, or from the start, to the version of its own cycle, both *)
(* committed and in this order, whatever cycles ran or failed in between.  *)
THEOREM DeltasLink == LegacySpec => []DeltasLinkVersions
<1>1. LegacyInit => DeltaFits
  BY EmptyIsMap DEF LegacyInit, DeltaFits, NoCycle, NoDeltaCycle
<1>2. LegacyInv /\ DeltaFits /\ [LegacyNext]_legacyVars => DeltaFits'
  <2> SUFFICES ASSUME LegacyInv, DeltaFits, [LegacyNext]_legacyVars PROVE DeltaFits'
    OBVIOUS
  <2>1. CASE ProducerNext
    BY <2>1, DeltaProducer
  <2>2. CASE UNCHANGED <<producerVars, storeVars, restarts>>
    BY <2>2 DEF DeltaFits, Committed, producerVars, storeVars
  <2>3. ASSUME NEW r \in Refreshers, RefreshNext(r) PROVE DeltaFits'
    BY <2>2, <2>3, RefreshLeavesStore
  <2> QED BY <2>1, <2>2, <2>3, NextCases DEF legacyVars
<1>3. DeltaFits => DeltasLinkVersions
  BY DEF DeltaFits, DeltasLinkVersions, Committed
<1> QED BY <1>1, <1>2, <1>3, LegacyInvariant, PTL DEF LegacySpec
=============================================================================
