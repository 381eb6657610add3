--------------------------- MODULE DeltaPipeline ---------------------------
(***************************************************************************)
(* The records of a data set on their way from the populate callback to a  *)
(* consumer's list: RunCycle (producer/producer.go) drives the write       *)
(* engine, and one consumer (consumer/consumer.go) refreshes after every   *)
(* published version, so that every delta is applied where it belongs.     *)
(* Serialisation is CapnProto mode; in Traditional mode a consumer decodes *)
(* every delta to an empty one (Hollow.tla has that mode).                 *)
(*                                                                         *)
(* RunCycle's order is kept, but the version counter is not: what matters  *)
(* here is how far the last snapshot is behind.                            *)
(***************************************************************************)
EXTENDS WriteStateEngine

CONSTANT
  Settings   \* the producers and callers to consider: records of the options
             \* NumStatesBetweenSnapshots and TypeResharding, of what the
             \* populate callbacks do (shapes), of the records they add to
             \* each type (offered) and of the consumer's type filter

(***************************************************************************)
(* What a cycle may do besides adding records, changing values and keeping *)
(* the order of the previous cycle.  A run that needs tame cycles says so  *)
(* by leaving shapes out.                                                  *)
(***************************************************************************)
ShapeNames ==
  { "omit",     \* a keyed record of the previous state is left out
    "repeat",   \* a key is added twice in one cycle
    "reorder",  \* keyed records come in another order than their ordinals
    "shrink",   \* a plain type loses more than one record
    "vanish",   \* a plain type that had records has none
    "empty",    \* nothing is added
    "reject" }  \* a validator fails

ASSUME PipelineAssumption ==
  \A s \in Settings :
    /\ s.NumStatesBetweenSnapshots \in Nat \ {0} /\ s.TypeResharding \in BOOLEAN
    /\ s.shapes \subseteq ShapeNames
    /\ \A t \in Types : s.offered[t] \subseteq Records[t]
    /\ s.filter.included \cup s.filter.excluded \subseteq Types
    /\ s.filter.excludeAll \in BOOLEAN

VARIABLES
  setting,    \* which of them this is
  published,  \* the values of the last published state
  distance,   \* newVersion - lastSnapshotVersion of the next version, 0 before the first
  mirror,     \* the consumer's lists: [value, wrapped] per record
  stuck       \* the consumer's next blob cannot be decoded

pipelineVars == <<published, distance, mirror, stuck>>
vars == <<setting, engineVars, pipelineVars>>

Values(data) == [t \in Types |-> ValuesOf(data[t])]

Init ==
  /\ setting \in Settings
  /\ EngineInit
  /\ published = NoRecords
  /\ distance = 0
  /\ mirror = NoRecords
  /\ stuck = FALSE

StartCycle ==
  /\ phase = "idle"
  /\ PrepareForCycle
  /\ phase' = "populating"
  /\ UNCHANGED <<setting, pipelineVars>>

-----------------------------------------------------------------------------
(* The shapes of this cycle, compared with the engine's previous state. *)
Missing(t) ==
  {e \in ToSet(previous[t]) : ExtractPrimaryKey(t, e.value) \notin CurrentKeys(t)}
Repeats == \E t \in KeyedTypes : Cardinality(CurrentKeys(t)) < Len(current[t])
Reorders == \E t \in KeyedTypes : \E i, j \in DOMAIN current[t] :
              i < j /\ current[t][i].ordinal > current[t][j].ordinal
Omits == \E t \in KeyedTypes : Missing(t) # {}
Shrinks == \E t \in PlainTypes : current[t] # <<>> /\ Len(previous[t]) > Len(current[t]) + 1
Vanishes == \E t \in PlainTypes : current[t] = <<>> /\ previous[t] # <<>>

(* A callback that omits nothing keeps room, and the place, for the keys   *)
(* it still has to add.                                                    *)
MayStillComplete ==
  \A t \in KeyedTypes :
    /\ Cardinality(Missing(t)) <= MaxRecords - Len(current[t])
    /\ "reorder" \notin setting.shapes =>
         \A m \in Missing(t), e \in ToSet(current[t]) : e.ordinal < m.ordinal

Populate ==
  /\ UNCHANGED <<setting, pipelineVars>>
  /\ \E t \in Types : \E r \in setting.offered[t] : Add(t, r)
  /\ Repeats' => "repeat" \in setting.shapes
  /\ Reorders' => "reorder" \in setting.shapes
  /\ ~MayStillComplete' => "omit" \in setting.shapes

EmptyCycle ==
  /\ "empty" \in setting.shapes
  /\ phase = "populating"
  /\ current = NoRecords
  /\ phase' = "idle"
  /\ UNCHANGED <<setting, previous, current, identity, shardCounts, delta, pipelineVars>>

(* The hash compares values in their order, not ordinals or shards. *)
Identical == distance > 0 /\ Values(current) = published

IdenticalCycle ==
  /\ phase = "populating"
  /\ current # NoRecords
  /\ Identical
  /\ phase' = "idle"
  /\ UNCHANGED <<setting, previous, current, identity, shardCounts, delta, pipelineVars>>

CycleAllowed ==
  /\ Omits => "omit" \in setting.shapes
  /\ Shrinks => "shrink" \in setting.shapes
  /\ Vanishes => "vanish" \in setting.shapes

(* A new version is taken: resharding, then the rest of the delta. *)
FinishPopulating ==
  /\ phase = "populating"
  /\ current # NoRecords
  /\ ~Identical
  /\ CycleAllowed
  /\ IF setting.TypeResharding THEN PerformResharding ELSE UNCHANGED <<current, shardCounts>>
  /\ CalculateDeletes
  /\ phase' = "ready"
  /\ UNCHANGED <<setting, previous, identity, pipelineVars>>

(* Validation fails: the engine prepares for a cycle once more. *)
Reject ==
  /\ "reject" \in setting.shapes
  /\ phase = "ready"
  /\ PrepareForCycle
  /\ phase' = "idle"
  /\ UNCHANGED <<setting, pipelineVars>>

-----------------------------------------------------------------------------
ShouldCreateSnapshot == distance = 0 \/ distance >= setting.NumStatesBetweenSnapshots

(* A snapshot carries RecordInfo objects as they are, a delta only values. *)
FromSnapshot(e) == [value |-> e.value, wrapped |-> e.wrapped]
FromDelta(d) ==
  IF d.op = "delete" THEN d
  ELSE [d EXCEPT !.value = [value |-> d.value, wrapped |-> FALSE]]

(***************************************************************************)
(* The consumer's TypeFilter.  Include counts only after ExcludeAll.       *)
(***************************************************************************)
NewTypeFilter == [excludeAll |-> FALSE, included |-> {}, excluded |-> {}]
Exclude(filter, t) == [filter EXCEPT !.excluded = @ \cup {t}]
Include(filter, t) == [filter EXCEPT !.included = @ \cup {t}]
ExcludeAll(filter) == [filter EXCEPT !.excludeAll = TRUE]
ShouldInclude(t) ==
  IF setting.filter.excludeAll THEN t \in setting.filter.included
  ELSE t \notin setting.filter.excluded

LoadSnapshot ==
  [t \in Types |->
     IF ShouldInclude(t) THEN [i \in DOMAIN current[t] |-> FromSnapshot(current[t][i])] ELSE <<>>]

(* Slip: the filter is left to the snapshot (EveryVersionIsRead). *)
ApplyToAll ==
  [t \in Types |-> ApplyDelta(mirror[t], [i \in DOMAIN delta[t] |-> FromDelta(delta[t][i])])]

(* All lists are copied; those of excluded types stay as they are. *)
ApplyToIncluded ==
  [t \in Types |->
     IF ShouldInclude(t)
     THEN ApplyDelta(mirror[t], [i \in DOMAIN delta[t] |-> FromDelta(delta[t][i])])
     ELSE mirror[t]]

PublishSnapshot ==
  /\ phase = "ready"
  /\ ShouldCreateSnapshot
  /\ distance' = 1
  /\ mirror' = LoadSnapshot
  /\ stuck' = FALSE
  /\ published' = Values(current)
  /\ phase' = "idle"
  /\ UNCHANGED <<setting, previous, current, identity, shardCounts, delta>>

(* A delta without changes is stored as a blob of no bytes, which the      *)
(* consumer fails to unpack; it stays where it is until a snapshot comes.  *)
PublishDelta ==
  /\ phase = "ready"
  /\ ~ShouldCreateSnapshot
  /\ distance' = distance + 1
  /\ stuck' = (stuck \/ delta = NoRecords)
  /\ mirror' = IF stuck' THEN mirror ELSE ApplyToIncluded
  /\ published' = Values(current)
  /\ phase' = "idle"
  /\ UNCHANGED <<setting, previous, current, identity, shardCounts, delta>>

Next ==
  \/ StartCycle \/ Populate
  \/ EmptyCycle \/ IdenticalCycle \/ FinishPopulating
  \/ Reject \/ PublishSnapshot \/ PublishDelta

Spec == Init /\ [][Next]_vars

-----------------------------------------------------------------------------
Entries(t) ==
  [value : Records[t],
   wrapped : IF t \in KeyedTypes THEN {TRUE} ELSE {FALSE},
   ordinal : IF t \in KeyedTypes THEN Nat ELSE {0},
   shard : IF t \in KeyedTypes THEN 0..MaxRecords ELSE {0}]

(* The lists of the consumer are left to EveryVersionIsRead. *)
TypeOK ==
  /\ phase \in {"idle", "populating", "ready"}
  /\ \A t \in Types :
       /\ Len(current[t]) <= MaxRecords /\ Len(previous[t]) <= MaxRecords
       /\ ToSet(current[t]) \cup ToSet(previous[t]) \subseteq Entries(t)
       /\ ToSet(published[t]) \subseteq Records[t]
       /\ {d.op : d \in ToSet(delta[t])} \subseteq {"add", "update", "delete"}
       /\ shardCounts[t] \in 1..(MaxRecords + 1)
  /\ distance \in 0..setting.NumStatesBetweenSnapshots
  /\ stuck \in BOOLEAN

(***************************************************************************)
(* What the engine keeps from cycle to cycle fits together, whichever      *)
(* cycles were rejected, empty or identical and however often types were   *)
(* resharded: ordinals name keys, records sit in the shard of their key    *)
(* and nothing leaves its type.                                            *)
(***************************************************************************)
EngineIsSound == TypeOK /\ OrdinalsNameKeys /\ ShardsMatchCount

(***************************************************************************)
(* The consumer's lists hold what was published of the types its filter    *)
(* lets through, record by record, and nothing of others, after any chain  *)
(* of snapshots and deltas.                                                *)
(***************************************************************************)
MirrorMatches ==
  ~stuck => Values(mirror) = [t \in Types |-> IF ShouldInclude(t) THEN published[t] ELSE <<>>]

(***************************************************************************)
(* A consumer can read every version that is published.                    *)
(***************************************************************************)
NeverStuck == ~stuck

(***************************************************************************)
(* Both: after every version that is published, the consumer that follows  *)
(* holds exactly its records.                                              *)
(***************************************************************************)
EveryVersionIsRead == NeverStuck /\ MirrorMatches

(***************************************************************************)
(* A consumer sees all records of a type in one form, whether they came in *)
(* a snapshot or in a delta.                                               *)
(***************************************************************************)
OneForm ==
  \A t \in Types : \A i, j \in DOMAIN mirror[t] : mirror[t][i].wrapped = mirror[t][j].wrapped
=============================================================================
