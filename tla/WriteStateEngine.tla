-------------------------- MODULE WriteStateEngine --------------------------
(***************************************************************************)
(* The producer's write engine (internal/state.go) inside one cycle: the   *)
(* populate callback adds records, keyed records get an ordinal that       *)
(* outlives the cycle and a shard, and the delta against the previous      *)
(* state is collected partly while adding (keyed types) and partly at the  *)
(* end (deletes, types without a key).                                     *)
(*                                                                         *)
(* A record is [key, val].  A type is keyed (some of which hold Cap'n      *)
(* Proto structs), plain (no primary key) or                               *)
(* misnamed: WithPrimaryKey named a field it does not have, so extracting  *)
(* the key fails and Add falls back to addTraditional.  A type without     *)
(* records is the empty sequence: the maps of the code have no entry for   *)
(* it.  RecordInfo.IsUpdate is left out: nothing reads it.                 *)
(***************************************************************************)
EXTENDS DeltaSet

CONSTANTS
  KeyedTypes, PlainTypes, MisnamedTypes,
  StructTypes,  \* the keyed types whose records are Cap'n Proto structs
  StructKey,    \* the text that is the key of each of them
  Records,      \* Records[t]: the records a callback may add to type t
  KeyHash,      \* Hash64String of a key
  MaxRecords,   \* bound on the records of a type in one cycle
  TargetMaxTypeShardSize

Types == KeyedTypes \cup PlainTypes \cup MisnamedTypes

(***************************************************************************)
(* Definitions whose comment starts with "Slip:" are no part of the        *)
(* specification.  Each is a wrong version of the definition after it that *)
(* the properties named in its comment have to notice.                     *)
(***************************************************************************)

ASSUME TypesAssumption ==
  /\ KeyedTypes \cap PlainTypes = {}
  /\ KeyedTypes \cap MisnamedTypes = {}
  /\ PlainTypes \cap MisnamedTypes = {}
  /\ StructTypes \subseteq KeyedTypes
  /\ DOMAIN Records = Types
  /\ \A t \in KeyedTypes : \A r \in Records[t] :
       KeyHash[IF t \in StructTypes THEN StructKey ELSE r.key] \in Nat
ASSUME ShardsAssumption ==
  /\ TargetMaxTypeShardSize \in Nat \ {0}
  /\ MaxRecords \in Nat

(* extractPrimaryKeyValue: the field of an object, and for a struct a text *)
(* made of the names of its type and its field.                            *)
ExtractPrimaryKey(t, r) == IF t \in StructTypes THEN StructKey ELSE r.key

Keys(t) == {ExtractPrimaryKey(t, r) : r \in Records[t]}

VARIABLES
  phase,        \* "idle", "populating", "ready"
  previous,     \* previousState.data
  current,      \* currentState.data
  identity,     \* identityMap.typeToKeyToOrdinal
  shardCounts,
  delta         \* currentDelta.Deltas

engineVars == <<phase, previous, current, identity, shardCounts, delta>>

NoRecords == [t \in Types |-> <<>>]

EngineInit ==
  /\ phase = "idle"
  /\ previous = NoRecords
  /\ current = NoRecords
  /\ identity = [t \in KeyedTypes |-> <<>>]
  /\ shardCounts = [t \in Types |-> 1]
  /\ delta = NoRecords

-----------------------------------------------------------------------------
PrepareForCycle ==
  /\ previous' = current
  /\ current' = NoRecords
  /\ delta' = NoRecords
  /\ UNCHANGED <<identity, shardCounts>>

Bare(r) == [value |-> r, wrapped |-> FALSE, ordinal |-> 0, shard |-> 0]
RecordInfo(r, ordinal, shard) ==
  [value |-> r, wrapped |-> TRUE, ordinal |-> ordinal, shard |-> shard]

(* Slip: ordinals are positions in the cycle (EngineIsSound). *)
GetOrCreateOrdinalByPosition(t, key) ==
  IF key \in DOMAIN identity[t] THEN identity[t][key] ELSE Len(current[t])

(* nextOrdinal: ordinals are handed out from 0 and never taken back. *)
GetOrCreateOrdinal(t, key) ==
  IF key \in DOMAIN identity[t] THEN identity[t][key]
  ELSE Cardinality(DOMAIN identity[t])

(* Slip: the hash is not reduced (EngineIsSound). *)
ShardOfUnreduced(key, count) == KeyHash[key]

ShardOf(key, count) == KeyHash[key] % count

(* A shard is asked for by the key, or by the ordinal of a record of the   *)
(* current state: a type without a key and an unknown ordinal have none.   *)
GetNumShards(t) == shardCounts[t]
ComputeShardForPrimaryKey(t, key) ==
  IF t \in KeyedTypes THEN {ShardOf(key, GetNumShards(t))} ELSE {}
GetShardByOrdinal(t, ordinal) ==
  LET same == {i \in WithOrdinal(current[t], ordinal) : current[t][i].wrapped}
  IN IF same = {} THEN {} ELSE {current[t][Min(same)].shard}

(* Slip: keys are compared instead of values (KeyedDeltaComplete,          *)
(* EveryVersionIsRead).                                                    *)
HasValueChangedByKey(t, ordinal, r) ==
  LET same == WithOrdinal(previous[t], ordinal)
  IN same = {} \/ previous[t][Min(same)].value.key # r.key

(* Slip: every record of the cycle counts as changed (DeltaMinimal). *)
HasValueChangedAlways(t, ordinal, r) == TRUE

(* The first record of the previous state with this ordinal decides. *)
HasValueChanged(t, ordinal, r) ==
  LET same == WithOrdinal(previous[t], ordinal)
  IN same = {} \/ previous[t][Min(same)].value # r

WithKey(ordinals, key, ordinal) ==
  [k \in DOMAIN ordinals \cup {key} |-> IF k = key THEN ordinal ELSE ordinals[k]]

DeltaOfAdd(t, r) ==
  LET key == ExtractPrimaryKey(t, r)
      ordinal == GetOrCreateOrdinal(t, key)
  IN IF key \notin DOMAIN identity[t] THEN <<DeltaAdd(ordinal, r)>>
     ELSE IF HasValueChanged(t, ordinal, r) THEN <<DeltaUpdate(ordinal, r)>>
     ELSE <<>>

AddWithPrimaryKey(t, r) ==
  LET key == ExtractPrimaryKey(t, r)
      ordinal == GetOrCreateOrdinal(t, key)
  IN
  /\ identity' = [identity EXCEPT ![t] = WithKey(@, key, ordinal)]
  /\ current' = [current EXCEPT ![t] =
                   Append(@, RecordInfo(r, ordinal, ShardOf(key, shardCounts[t])))]
  /\ delta' = [delta EXCEPT ![t] = @ \o DeltaOfAdd(t, r)]

(* Also where Add falls back to when the key cannot be extracted. *)
AddTraditional(t, r) ==
  /\ current' = [current EXCEPT ![t] = Append(@, Bare(r))]
  /\ UNCHANGED <<identity, delta>>

(* WriteState.Add, called by the populate callback. *)
Add(t, r) ==
  /\ phase = "populating"
  /\ Len(current[t]) < MaxRecords
  /\ IF t \in KeyedTypes THEN AddWithPrimaryKey(t, r) ELSE AddTraditional(t, r)
  /\ UNCHANGED <<phase, previous, shardCounts>>

-----------------------------------------------------------------------------
CurrentKeys(t) == {ExtractPrimaryKey(t, e.value) : e \in ToSet(current[t])}

(* Records removed by omission, in the order they had. *)
CalculateDeletesForType(t) ==
  LET key(i) == ExtractPrimaryKey(t, previous[t][i].value)
      gone == InOrder({i \in DOMAIN previous[t] : key(i) \notin CurrentKeys(t)})
  IN [k \in DOMAIN gone |-> DeltaDelete(identity[t][key(gone[k])])]

ValuesOf(entries) == [i \in DOMAIN entries |-> entries[i].value]

(* CalculateDeletes, and the optimisation GetCurrentDelta applies to it.   *)
(* Types whose key cannot be extracted get no change record at all.        *)
CalculateDeletes ==
  delta' = [t \in Types |->
    IF t \in KeyedTypes THEN OptimizeTypeDelta(delta[t] \o CalculateDeletesForType(t))
    ELSE IF t \in PlainTypes THEN DeltaOfPlain(ValuesOf(previous[t]), ValuesOf(current[t]))
    ELSE <<>>]

(* performResharding: the shard count follows the size of a type that      *)
(* outgrows its target, and every keyed record is assigned again.          *)
NewShardCount(t) ==
  LET needed == (Len(current[t]) + TargetMaxTypeShardSize - 1) \div TargetMaxTypeShardSize
  IN IF Len(current[t]) <= TargetMaxTypeShardSize THEN shardCounts[t]
     ELSE IF needed < 2 THEN 2 ELSE needed

(* Slip: records keep their shard (EngineIsSound). *)
PerformReshardingLazily ==
  /\ shardCounts' = [t \in Types |-> NewShardCount(t)]
  /\ UNCHANGED current

PerformResharding ==
  /\ shardCounts' = [t \in Types |-> NewShardCount(t)]
  /\ current' = [t \in Types |->
       [i \in DOMAIN current[t] |->
          IF t \in KeyedTypes
          THEN [current[t][i] EXCEPT !.shard =
                  ShardOf(ExtractPrimaryKey(t, current[t][i].value), shardCounts'[t])]
          ELSE current[t][i]]]
-----------------------------------------------------------------------------
(* What a keyed type holds under an ordinal; a later record shadows an     *)
(* earlier one with the same key.                                          *)
ValueAt(entries, o) ==
  LET same == WithOrdinal(entries, o)
  IN IF same = {} THEN {} ELSE {entries[Max(same)].value}

(* The same after the delta's record for the ordinal, if there is one. *)
ValueAfter(t, o) ==
  LET changes == WithOrdinal(delta[t], o)
      last == delta[t][Max(changes)]
  IN IF changes = {} THEN ValueAt(previous[t], o)
     ELSE IF last.op = "delete" THEN {} ELSE {last.value}

OrdinalsOf(t) == {identity[t][k] : k \in DOMAIN identity[t]}

(***************************************************************************)
(* The delta of a keyed type says everything: per key, the previous state  *)
(* overlaid with the delta is the current state.  Adds and updates are     *)
(* recorded while the callback runs, deletes afterwards, and the optimiser *)
(* merges both.                                                            *)
(***************************************************************************)
KeyedDeltaComplete ==
  phase = "ready" =>
    \A t \in KeyedTypes : \A o \in OrdinalsOf(t) :
      ValueAfter(t, o) = ValueAt(current[t], o)

(***************************************************************************)
(* And nothing else: "only changed records are transmitted", one record    *)
(* per ordinal.                                                            *)
(***************************************************************************)
DeltaMinimal ==
  phase = "ready" =>
    \A t \in KeyedTypes :
      /\ \A i \in DOMAIN delta[t] :
           LET o == delta[t][i].ordinal
           IN ValueAt(previous[t], o) # ValueAt(current[t], o)
      /\ \A i, j \in DOMAIN delta[t] : delta[t][i].ordinal = delta[t][j].ordinal => i = j

(***************************************************************************)
(* An ordinal means one key in everything the engine holds: the identity   *)
(* map is injective and leaves no ordinal out, and the records of both     *)
(* states and of the delta carry the ordinal of their own key, over        *)
(* rejected and empty cycles too.                                          *)
(***************************************************************************)
OrdinalsNameKeys ==
  \A t \in KeyedTypes :
    /\ \A j, k \in DOMAIN identity[t] : identity[t][j] = identity[t][k] => j = k
    /\ OrdinalsOf(t) = 0..(Cardinality(DOMAIN identity[t]) - 1)
    /\ \A e \in ToSet(previous[t]) \cup ToSet(current[t]) :
         LET key == ExtractPrimaryKey(t, e.value)
         IN key \in DOMAIN identity[t] /\ e.ordinal = identity[t][key]
    /\ \A d \in ToSet(delta[t]) :
         d.op # "delete" => d.ordinal = identity[t][ExtractPrimaryKey(t, d.value)]

(***************************************************************************)
(* When a cycle is ready to be stored, every keyed record sits in the      *)
(* shard its key has under the shard count in force, although the count    *)
(* may have changed after the record was added; and who asks for it by the *)
(* key or by the ordinal is told that shard.                               *)
(***************************************************************************)
ShardsMatchCount ==
  phase = "ready" =>
    \A t \in KeyedTypes : \A e \in ToSet(current[t]) :
      LET asked == ComputeShardForPrimaryKey(t, ExtractPrimaryKey(t, e.value))
      IN {e.shard} = asked /\ GetShardByOrdinal(t, e.ordinal) = asked

(***************************************************************************)
(* state.go:627, where the key of a Cap'n Proto struct is made: "This      *)
(* maintains uniqueness".  Different records of a cycle have different     *)
(* keys, if their fields do.                                               *)
(***************************************************************************)
KeysAreUnique ==
  \A t \in KeyedTypes : \A e, f \in ToSet(current[t]) :
    e.value.key # f.value.key =>
      ExtractPrimaryKey(t, e.value) # ExtractPrimaryKey(t, f.value)
=============================================================================
