------------------------ MODULE DeltaPipeline_proofs ------------------------
(***************************************************************************)
(* What the write engine keeps from cycle to cycle, for any types, records *)
(* and bounds and whatever the callbacks, the validators and the           *)
(* resharding do: ordinals name keys, records sit in the shard of their    *)
(* key, and the change records of keyed types say everything and nothing   *)
(* else as long as no key is added twice in a cycle.  And what a consumer  *)
(* holds that reads every version, through snapshots and deltas.           *)
(***************************************************************************)
EXTENDS DeltaPipeline, DeltaSet_proofs

(***************************************************************************)
(* The engine                                                              *)
(***************************************************************************)

(* The ordinals of one type: each of the first numbers to one key. *)
IsNaming(f) ==
  /\ IsFiniteSet(DOMAIN f)
  /\ f \in [DOMAIN f -> 0..(Cardinality(DOMAIN f) - 1)]
  /\ \A j, k \in DOMAIN f : f[j] = f[k] => j = k
  /\ \A n \in 0..(Cardinality(DOMAIN f) - 1) : \E k \in DOMAIN f : f[k] = n

(* A record, or a change, with the ordinal of its key. *)
Named(f, t, e) ==
  /\ ExtractPrimaryKey(t, e.value) \in DOMAIN f
  /\ e.ordinal = f[ExtractPrimaryKey(t, e.value)]

EngineTypes ==
  /\ setting \in Settings
  /\ phase \in {"idle", "populating", "ready"}
  /\ DOMAIN previous = Types /\ DOMAIN current = Types /\ DOMAIN delta = Types
  /\ DOMAIN published = Types /\ DOMAIN shardCounts = Types
  /\ \A t \in Types :
       /\ previous[t] \in Seq(Entries(t)) /\ Len(previous[t]) <= MaxRecords
       /\ current[t] \in Seq(Entries(t)) /\ Len(current[t]) <= MaxRecords
       /\ delta[t] \in Seq(ChangesOf(Records[t]))
       /\ published[t] \in Seq(Records[t])
       /\ shardCounts[t] \in 1..(MaxRecords + 1)

EngineNames ==
  /\ DOMAIN identity = KeyedTypes
  /\ \A t \in KeyedTypes :
       /\ IsNaming(identity[t])
       /\ \A i \in DOMAIN previous[t] : Named(identity[t], t, previous[t][i])
       /\ \A i \in DOMAIN current[t] : Named(identity[t], t, current[t][i])
       /\ \A i \in DOMAIN delta[t] :
            delta[t][i].op # "delete" => Named(identity[t], t, delta[t][i])

(* Whatever the phase: the count changes only where records are moved. *)
EngineShards ==
  \A t \in KeyedTypes : \A i \in DOMAIN current[t] :
    current[t][i].shard = ShardOf(ExtractPrimaryKey(t, current[t][i].value), shardCounts[t])

EngineInv == EngineTypes /\ EngineNames /\ EngineShards

LEMMA KeysHaveHashes ==
  ASSUME NEW t \in KeyedTypes, NEW r \in Records[t], NEW count \in 1..(MaxRecords + 1)
  PROVE  ShardOf(ExtractPrimaryKey(t, r), count) \in 0..MaxRecords
<1>1. KeyHash[ExtractPrimaryKey(t, r)] \in Nat
  BY TypesAssumption DEF ExtractPrimaryKey
<1> DEFINE h == KeyHash[ExtractPrimaryKey(t, r)]
<1>2. h % count \in 0..(count - 1)
  <2>1. h \in Nat /\ count \in Nat \ {0}
    BY <1>1, ShardsAssumption
  <2> HIDE DEF h
  <2> QED BY <2>1
<1>3. count - 1 <= MaxRecords /\ MaxRecords \in Nat
  BY ShardsAssumption
<1> HIDE DEF h
<1>4. h % count \in 0..MaxRecords
  BY <1>2, <1>3
<1> QED BY <1>4 DEF ShardOf, h

(* A key that has no ordinal yet takes the next one. *)
LEMMA NamingGrows ==
  ASSUME NEW f, IsNaming(f), NEW key,
         NEW ordinal,
         ordinal = IF key \in DOMAIN f THEN f[key] ELSE Cardinality(DOMAIN f),
         NEW g, g = WithKey(f, key, ordinal)
  PROVE  /\ IsNaming(g)
         /\ key \in DOMAIN g /\ g[key] = ordinal
         /\ \A k \in DOMAIN f : k \in DOMAIN g /\ g[k] = f[k]
         /\ ordinal \in Nat
         /\ key \notin DOMAIN f => \A k \in DOMAIN f : f[k] # ordinal
<1> DEFINE D == DOMAIN f
           n == Cardinality(D)
<1>1. IsFiniteSet(D) /\ n \in Nat /\ f \in [D -> 0..(n - 1)]
  BY FS_CardinalityType DEF IsNaming
<1>2. g = [k \in D \cup {key} |-> IF k = key THEN ordinal ELSE f[k]]
  BY DEF WithKey
<1>3. DOMAIN g = D \cup {key}
  BY <1>2
<1>4. IsFiniteSet(DOMAIN g) /\ Cardinality(DOMAIN g) = IF key \in D THEN n ELSE n + 1
  BY <1>1, <1>3, FS_AddElement
<1>5. /\ \A j, k \in D : f[j] = f[k] => j = k
      /\ \A m \in 0..(n - 1) : \E k \in D : f[k] = m
  BY DEF IsNaming
<1> HIDE DEF n, D
<1>6. CASE key \in D
  <2>1. g = f
    <3>1. D \cup {key} = D /\ ordinal = f[key]
      BY <1>6 DEF D
    <3>2. \A k \in D : (IF k = key THEN ordinal ELSE f[k]) = f[k]
      BY <3>1
    <3>3. g = [k \in D |-> f[k]]
      BY <1>2, <3>1, <3>2
    <3>4. f = [k \in D |-> f[k]]
      BY <1>1
    <3> QED BY <3>3, <3>4
  <2>2. ordinal = f[key] /\ f[key] \in 0..(n - 1)
    BY <1>1, <1>6 DEF D
  <2>3. ordinal \in Nat
    BY <1>1, <2>2
  <2> QED BY <1>6, <2>1, <2>2, <2>3 DEF D
<1>7. CASE key \notin D
  <2>1. ordinal = n
    BY <1>7 DEF D, n
  <2>2. Cardinality(DOMAIN g) = n + 1
    BY <1>4, <1>7
  <2>3. g[key] = n /\ \A k \in D : g[k] = f[k] /\ g[k] \in 0..(n - 1)
    BY <1>1, <1>2, <1>7, <2>1
  <2>4. \A k \in DOMAIN g : g[k] \in 0..n
    BY <1>1, <1>3, <2>3
  <2>5. g \in [DOMAIN g -> 0..((n + 1) - 1)]
    <3>1. g = [k \in DOMAIN g |-> g[k]] /\ (n + 1) - 1 = n
      BY <1>1, <1>2, <1>3
    <3> QED BY <2>4, <3>1
  <2>6. ASSUME NEW j \in DOMAIN g, NEW k \in DOMAIN g, g[j] = g[k] PROVE j = k
    <3>1. \A i \in D : g[i] # n
      BY <1>1, <2>3
    <3>2. (j = key \/ j \in D) /\ (k = key \/ k \in D)
      BY <1>3
    <3> QED BY <1>5, <2>3, <2>6, <3>1, <3>2
  <2>7. ASSUME NEW m \in 0..((n + 1) - 1) PROVE \E k \in DOMAIN g : g[k] = m
    <3>1. m = n \/ m \in 0..(n - 1)
      BY <1>1
    <3>2. CASE m = n
      BY <1>3, <2>3, <3>2
    <3>3. CASE m \in 0..(n - 1)
      <4>1. PICK k \in D : f[k] = m
        BY <1>5, <3>3
      <4> QED BY <1>3, <2>3, <4>1
    <3> QED BY <3>1, <3>2, <3>3
  <2>8. IsNaming(g)
    BY <1>4, <2>2, <2>5, <2>6, <2>7 DEF IsNaming
  <2>9. \A k \in D : f[k] # n
    BY <1>1, <2>3
  <2>10. ordinal \in Nat /\ (key \notin D => \A k \in D : f[k] # ordinal)
    BY <1>1, <2>1, <2>9
  <2>11. key \in DOMAIN g /\ g[key] = ordinal
    BY <1>3, <2>1, <2>3
  <2>12. \A k \in D : k \in DOMAIN g /\ g[k] = f[k]
    BY <1>3, <2>3
  <2> QED BY <2>8, <2>10, <2>11, <2>12 DEF D
<1> QED BY <1>6, <1>7

LEMMA EngineStarts == Init => EngineInv
<1> SUFFICES ASSUME Init PROVE EngineInv
  OBVIOUS
<1> USE DEF Init, EngineInit
<1>1. EngineTypes
  BY ShardsAssumption DEF EngineTypes, NoRecords
<1>2. ASSUME NEW t \in KeyedTypes PROVE IsNaming(identity[t])
  <2>1. identity[t] = <<>> /\ DOMAIN identity[t] = {}
    OBVIOUS
  <2>2. IsFiniteSet({}) /\ Cardinality({}) = 0
    BY FS_EmptySet
  <2>3. 0..(0 - 1) = {}
    OBVIOUS
  <2>4. identity[t] \in [{} -> {}]
    BY <2>1
  <2> QED BY <2>1, <2>2, <2>3, <2>4 DEF IsNaming
<1>3. \A t \in Types : previous[t] = <<>> /\ current[t] = <<>> /\ delta[t] = <<>>
  BY DEF NoRecords
<1>4. EngineNames
  BY <1>2, <1>3 DEF EngineNames, Types
<1>5. EngineShards
  BY <1>3 DEF EngineShards, Types
<1> QED BY <1>1, <1>4, <1>5 DEF EngineInv

(* What one record does to its type; the others stay. *)
LEMMA AddHasEffect ==
  ASSUME EngineInv, NEW t \in KeyedTypes, NEW r \in Records[t], Add(t, r),
         NEW key, key = ExtractPrimaryKey(t, r),
         NEW ordinal, ordinal = GetOrCreateOrdinal(t, key),
         NEW e, e = RecordInfo(r, ordinal, ShardOf(key, shardCounts[t]))
  PROVE  /\ IsNaming(identity'[t])
         /\ key \in DOMAIN identity'[t] /\ identity'[t][key] = ordinal
         /\ \A k \in DOMAIN identity[t] :
              k \in DOMAIN identity'[t] /\ identity'[t][k] = identity[t][k]
         /\ ordinal \in Nat
         /\ key \notin DOMAIN identity[t] => \A k \in DOMAIN identity[t] : identity[t][k] # ordinal
         /\ e \in Entries(t)
         /\ current'[t] = Append(current[t], e)
         /\ delta'[t] = delta[t] \o DeltaOfAdd(t, r)
         /\ \/ DeltaOfAdd(t, r) = <<>>
            \/ DeltaOfAdd(t, r) = <<DeltaAdd(ordinal, r)>>
            \/ DeltaOfAdd(t, r) = <<DeltaUpdate(ordinal, r)>>
         /\ Len(current[t]) < MaxRecords
         /\ \A u \in Types : u # t => current'[u] = current[u] /\ delta'[u] = delta[u]
         /\ \A u \in KeyedTypes : u # t => identity'[u] = identity[u]
         /\ DOMAIN identity' = KeyedTypes
         /\ DOMAIN current' = Types /\ DOMAIN delta' = Types
         /\ UNCHANGED <<phase, previous, shardCounts>>
<1>1. t \in Types
  BY DEF Types
<1>2. AddWithPrimaryKey(t, r) /\ Len(current[t]) < MaxRecords
  BY DEF Add
<1>3. UNCHANGED <<phase, previous, shardCounts>>
  BY DEF Add
<1>4. /\ identity' = [identity EXCEPT ![t] = WithKey(@, key, ordinal)]
      /\ current' = [current EXCEPT ![t] = Append(@, e)]
      /\ delta' = [delta EXCEPT ![t] = @ \o DeltaOfAdd(t, r)]
  BY <1>2 DEF AddWithPrimaryKey
<1>5. /\ DOMAIN identity = KeyedTypes /\ DOMAIN current = Types /\ DOMAIN delta = Types
      /\ IsNaming(identity[t]) /\ shardCounts[t] \in 1..(MaxRecords + 1)
  BY <1>1 DEF EngineInv, EngineTypes, EngineNames
<1>6. /\ identity'[t] = WithKey(identity[t], key, ordinal)
      /\ current'[t] = Append(current[t], e)
      /\ delta'[t] = delta[t] \o DeltaOfAdd(t, r)
      /\ \A u \in Types : u # t => current'[u] = current[u] /\ delta'[u] = delta[u]
      /\ \A u \in KeyedTypes : u # t => identity'[u] = identity[u]
      /\ DOMAIN identity' = KeyedTypes
      /\ DOMAIN current' = Types /\ DOMAIN delta' = Types
  <2> HIDE DEF EngineInv
  <2> QED BY <1>1, <1>4, <1>5
<1>7. ordinal = IF key \in DOMAIN identity[t] THEN identity[t][key]
                ELSE Cardinality(DOMAIN identity[t])
  BY DEF GetOrCreateOrdinal
<1>8. /\ IsNaming(identity'[t])
      /\ key \in DOMAIN identity'[t] /\ identity'[t][key] = ordinal
      /\ \A k \in DOMAIN identity[t] :
           k \in DOMAIN identity'[t] /\ identity'[t][k] = identity[t][k]
      /\ ordinal \in Nat
      /\ key \notin DOMAIN identity[t] => \A k \in DOMAIN identity[t] : identity[t][k] # ordinal
  BY <1>5, <1>6, <1>7, NamingGrows
<1>9. e \in Entries(t)
  BY <1>5, <1>8, KeysHaveHashes DEF Entries, RecordInfo
<1>10. \/ DeltaOfAdd(t, r) = <<>>
       \/ DeltaOfAdd(t, r) = <<DeltaAdd(ordinal, r)>>
       \/ DeltaOfAdd(t, r) = <<DeltaUpdate(ordinal, r)>>
  BY DEF DeltaOfAdd
<1> QED BY <1>2, <1>3, <1>6, <1>8, <1>9, <1>10

LEMMA GrownList ==
  ASSUME NEW S, NEW list \in Seq(S), NEW x \in S
  PROVE  /\ Append(list, x) \in Seq(S)
         /\ Len(Append(list, x)) = Len(list) + 1
         /\ DOMAIN Append(list, x) = 1..(Len(list) + 1)
         /\ DOMAIN list = 1..Len(list) /\ Len(list) \in Nat
         /\ \A i \in DOMAIN list : Append(list, x)[i] = list[i]
         /\ Append(list, x)[Len(list) + 1] = x
         /\ list \o <<x>> = Append(list, x)
         /\ list \o <<>> = list
OBVIOUS

LEMMA AddKeepsEngine ==
  ASSUME EngineInv, NEW t \in Types, NEW r \in Records[t], Add(t, r), setting' = setting,
         published' = published
  PROVE  EngineInv'
<1>1. /\ current[t] \in Seq(Entries(t)) /\ delta[t] \in Seq(ChangesOf(Records[t]))
      /\ \A u \in Types : DOMAIN current[u] = 1..Len(current[u])
  BY DEF EngineInv, EngineTypes
<1>2. CASE t \in KeyedTypes
  <2> DEFINE key == ExtractPrimaryKey(t, r)
             o == GetOrCreateOrdinal(t, key)
             e == RecordInfo(r, o, ShardOf(key, shardCounts[t]))
             f == identity[t]
             g == identity'[t]
             new == DeltaOfAdd(t, r)
  <2>1. /\ IsNaming(g)
        /\ key \in DOMAIN g /\ g[key] = o
        /\ \A k \in DOMAIN f : k \in DOMAIN g /\ g[k] = f[k]
        /\ o \in Nat
        /\ e \in Entries(t)
        /\ current'[t] = Append(current[t], e)
        /\ delta'[t] = delta[t] \o new
        /\ new = <<>> \/ new = <<DeltaAdd(o, r)>> \/ new = <<DeltaUpdate(o, r)>>
        /\ Len(current[t]) < MaxRecords
        /\ \A u \in Types : u # t => current'[u] = current[u] /\ delta'[u] = delta[u]
        /\ \A u \in KeyedTypes : u # t => identity'[u] = identity[u]
        /\ DOMAIN identity' = KeyedTypes
        /\ DOMAIN current' = Types /\ DOMAIN delta' = Types
        /\ UNCHANGED <<phase, previous, shardCounts>>
    BY <1>2, AddHasEffect
  <2>2. e.value = r /\ e.ordinal = o /\ e.shard = ShardOf(key, shardCounts[t])
    BY DEF RecordInfo
  <2>3. Named(g, t, e)
    BY <2>1, <2>2 DEF Named
  <2>4. \A x : Named(f, t, x) => Named(g, t, x)
    BY <2>1 DEF Named
  <2>5. PICK d : /\ d \in ChangesOf(Records[t]) /\ Named(g, t, d)
                 /\ new = <<>> \/ new = <<d>>
    <3>1. CASE new = <<DeltaAdd(o, r)>>
      <4>1. DeltaAdd(o, r) \in ChangesOf(Records[t]) /\ Named(g, t, DeltaAdd(o, r))
        <5> HIDE DEF o, key
        <5> QED BY <2>1 DEF Named, DeltaAdd, ChangesOf, Updates, key
      <4> QED BY <3>1, <4>1
    <3>2. CASE new = <<DeltaUpdate(o, r)>> \/ new = <<>>
      <4>1. DeltaUpdate(o, r) \in ChangesOf(Records[t]) /\ Named(g, t, DeltaUpdate(o, r))
        <5> HIDE DEF o, key
        <5> QED BY <2>1 DEF Named, DeltaUpdate, ChangesOf, Updates, key
      <4> QED BY <3>2, <4>1
    <3> QED BY <2>1, <3>1, <3>2
  <2>6. /\ current'[t] \in Seq(Entries(t)) /\ Len(current'[t]) <= MaxRecords
        /\ DOMAIN current'[t] = 1..(Len(current[t]) + 1)
        /\ \A i \in DOMAIN current'[t] :
             \/ i \in DOMAIN current[t] /\ current'[t][i] = current[t][i]
             \/ current'[t][i] = e
    <3>1. MaxRecords \in Nat
      BY ShardsAssumption
    <3> HIDE DEF e
    <3>2. /\ Append(current[t], e) \in Seq(Entries(t))
          /\ Len(Append(current[t], e)) = Len(current[t]) + 1
          /\ DOMAIN Append(current[t], e) = 1..(Len(current[t]) + 1)
          /\ DOMAIN current[t] = 1..Len(current[t]) /\ Len(current[t]) \in Nat
          /\ \A i \in DOMAIN current[t] : Append(current[t], e)[i] = current[t][i]
          /\ Append(current[t], e)[Len(current[t]) + 1] = e
      BY <1>1, <2>1, GrownList
    <3> HIDE DEF EngineInv
    <3> QED BY <2>1, <3>1, <3>2
  <2>7. /\ delta'[t] \in Seq(ChangesOf(Records[t]))
        /\ \A i \in DOMAIN delta'[t] :
             \/ i \in DOMAIN delta[t] /\ delta'[t][i] = delta[t][i]
             \/ delta'[t][i] = d
    <3>1. delta'[t] = delta[t] \/ delta'[t] = Append(delta[t], d)
      <4>1. delta[t] \o <<d>> = Append(delta[t], d) /\ delta[t] \o <<>> = delta[t]
        BY <1>1, <2>5, GrownList
      <4>2. delta'[t] = delta[t] \o new /\ (new = <<>> \/ new = <<d>>)
        BY <2>1, <2>5
      <4> HIDE DEF new
      <4>3. CASE new = <<>>
        BY <4>1, <4>2, <4>3, Zenon
      <4>4. CASE new = <<d>>
        BY <4>1, <4>2, <4>4, Zenon
      <4> QED BY <4>2, <4>3, <4>4
    <3>2. /\ Append(delta[t], d) \in Seq(ChangesOf(Records[t]))
          /\ DOMAIN Append(delta[t], d) = 1..(Len(delta[t]) + 1)
          /\ DOMAIN delta[t] = 1..Len(delta[t]) /\ Len(delta[t]) \in Nat
          /\ \A i \in DOMAIN delta[t] : Append(delta[t], d)[i] = delta[t][i]
          /\ Append(delta[t], d)[Len(delta[t]) + 1] = d
      BY <1>1, <2>5, GrownList
    <3>3. CASE delta'[t] = delta[t]
      BY <1>1, <3>3
    <3>4. CASE delta'[t] = Append(delta[t], d)
      BY <3>2, <3>4
    <3> QED BY <3>1, <3>3, <3>4
  <2> HIDE DEF key, o, e, f, g, new
  <2>8. EngineTypes'
    <3>1. \A u \in Types :
            /\ previous'[u] \in Seq(Entries(u)) /\ Len(previous'[u]) <= MaxRecords
            /\ current'[u] \in Seq(Entries(u)) /\ Len(current'[u]) <= MaxRecords
            /\ delta'[u] \in Seq(ChangesOf(Records[u]))
            /\ published'[u] \in Seq(Records[u])
            /\ shardCounts'[u] \in 1..(MaxRecords + 1)
      BY <2>1, <2>6, <2>7 DEF EngineInv, EngineTypes
    <3>2. /\ setting' \in Settings /\ phase' \in {"idle", "populating", "ready"}
          /\ DOMAIN previous' = Types /\ DOMAIN published' = Types /\ DOMAIN shardCounts' = Types
      BY <2>1 DEF EngineInv, EngineTypes
    <3> QED BY <2>1, <3>1, <3>2 DEF EngineTypes
  <2>9. EngineNames'
    <3>1. ASSUME NEW u \in KeyedTypes
          PROVE /\ IsNaming(identity'[u])
                /\ \A i \in DOMAIN previous'[u] : Named(identity'[u], u, previous'[u][i])
                /\ \A i \in DOMAIN current'[u] : Named(identity'[u], u, current'[u][i])
                /\ \A i \in DOMAIN delta'[u] :
                     delta'[u][i].op # "delete" => Named(identity'[u], u, delta'[u][i])
      <4>1. /\ IsNaming(identity[u]) /\ u \in Types
            /\ \A i \in DOMAIN previous[u] : Named(identity[u], u, previous[u][i])
            /\ \A i \in DOMAIN current[u] : Named(identity[u], u, current[u][i])
            /\ \A i \in DOMAIN delta[u] :
                 delta[u][i].op # "delete" => Named(identity[u], u, delta[u][i])
        BY DEF EngineInv, EngineNames, Types
      <4>2. CASE u # t
        BY <2>1, <4>1, <4>2
      <4>3. CASE u = t
        <5>1. \A i \in DOMAIN previous'[t] : Named(g, t, previous'[t][i])
          BY <2>1, <2>4, <4>1, <4>3 DEF f
        <5>2. \A i \in DOMAIN current'[t] : Named(g, t, current'[t][i])
          BY <2>3, <2>4, <2>6, <4>1, <4>3 DEF f
        <5>3. \A i \in DOMAIN delta'[t] : delta'[t][i].op # "delete" => Named(g, t, delta'[t][i])
          BY <2>4, <2>5, <2>7, <4>1, <4>3 DEF f
        <5> QED BY <2>1, <4>3, <5>1, <5>2, <5>3 DEF g
      <4> QED BY <4>2, <4>3
    <3> QED BY <2>1, <3>1 DEF EngineNames
  <2>10. EngineShards'
    <3>1. ASSUME NEW u \in KeyedTypes, NEW i \in DOMAIN current'[u]
          PROVE  current'[u][i].shard =
                   ShardOf(ExtractPrimaryKey(u, current'[u][i].value), shardCounts'[u])
      <4>1. u \in Types /\ shardCounts' = shardCounts
        BY <2>1 DEF Types
      <4>2. \A j \in DOMAIN current[u] : current[u][j].shard =
              ShardOf(ExtractPrimaryKey(u, current[u][j].value), shardCounts[u])
        BY DEF EngineInv, EngineShards
      <4>3. CASE u # t
        BY <2>1, <4>1, <4>2, <4>3
      <4>4. CASE u = t
        BY <2>2, <2>6, <4>1, <4>2, <4>4 DEF key
      <4> QED BY <4>3, <4>4
    <3> QED BY <3>1 DEF EngineShards
  <2> QED BY <2>8, <2>9, <2>10 DEF EngineInv
<1>3. CASE t \notin KeyedTypes
  <2>1. /\ current' = [current EXCEPT ![t] = Append(@, Bare(r))]
        /\ Len(current[t]) < MaxRecords
        /\ UNCHANGED <<identity, delta, phase, previous, shardCounts>>
    BY <1>3 DEF Add, AddTraditional
  <2>2. Bare(r) \in Entries(t)
    BY <1>3 DEF Entries, Bare
  <2>3. DOMAIN current = Types
    BY DEF EngineInv, EngineTypes
  <2>4. /\ DOMAIN current' = Types
        /\ current'[t] = Append(current[t], Bare(r))
        /\ \A u \in Types : u # t => current'[u] = current[u]
    BY <2>1, <2>3
  <2>5. current'[t] \in Seq(Entries(t)) /\ Len(current'[t]) <= MaxRecords
    <3>1. MaxRecords \in Nat
      BY ShardsAssumption
    <3>2. Append(current[t], Bare(r)) \in Seq(Entries(t)) /\ Len(current[t]) \in Nat
          /\ Len(Append(current[t], Bare(r))) = Len(current[t]) + 1
      BY <1>1, <2>2, GrownList
    <3> QED BY <2>1, <2>4, <3>1, <3>2
  <2>6. EngineTypes'
    <3>1. \A u \in Types :
            /\ previous'[u] \in Seq(Entries(u)) /\ Len(previous'[u]) <= MaxRecords
            /\ current'[u] \in Seq(Entries(u)) /\ Len(current'[u]) <= MaxRecords
            /\ delta'[u] \in Seq(ChangesOf(Records[u]))
            /\ published'[u] \in Seq(Records[u])
            /\ shardCounts'[u] \in 1..(MaxRecords + 1)
      BY <2>1, <2>4, <2>5 DEF EngineInv, EngineTypes
    <3>2. /\ setting' \in Settings /\ phase' \in {"idle", "populating", "ready"}
          /\ DOMAIN previous' = Types /\ DOMAIN published' = Types /\ DOMAIN shardCounts' = Types
          /\ DOMAIN delta' = Types
      BY <2>1 DEF EngineInv, EngineTypes
    <3> QED BY <2>4, <3>1, <3>2 DEF EngineTypes
  <2>7. \A u \in KeyedTypes : current'[u] = current[u]
    BY <1>3, <2>4 DEF Types
  <2>8. EngineNames'
    BY <2>1, <2>7 DEF EngineInv, EngineNames
  <2>9. EngineShards'
    BY <2>1, <2>7 DEF EngineInv, EngineShards
  <2> QED BY <2>6, <2>8, <2>9 DEF EngineInv
<1> QED BY <1>2, <1>3

(* A record of the previous state that the callback left out. *)
IsGone(t, i) ==
  /\ i \in DOMAIN previous[t]
  /\ ExtractPrimaryKey(t, previous[t][i].value) \notin CurrentKeys(t)

(* Every record that was left out is deleted by its ordinal. *)
LEMMA GoneAreDeleted ==
  ASSUME EngineInv, NEW t \in KeyedTypes
  PROVE  LET out == CalculateDeletesForType(t)
         IN  /\ out \in Seq(Deletes)
             /\ \A k \in DOMAIN out : \E i \in DOMAIN previous[t] :
                  IsGone(t, i) /\ out[k] = DeltaDelete(previous[t][i].ordinal)
             /\ \A i \in DOMAIN previous[t] : IsGone(t, i) =>
                  \E k \in DOMAIN out : out[k] = DeltaDelete(previous[t][i].ordinal)
<1> DEFINE key(i) == ExtractPrimaryKey(t, previous[t][i].value)
           where == {i \in DOMAIN previous[t] : key(i) \notin CurrentKeys(t)}
           gone == InOrder(where)
           out == CalculateDeletesForType(t)
<1>1. /\ t \in Types /\ previous[t] \in Seq(Entries(t))
      /\ \A i \in DOMAIN previous[t] : Named(identity[t], t, previous[t][i])
      /\ \A i \in DOMAIN previous[t] : previous[t][i].ordinal \in Nat
  <2>1. t \in Types
    BY DEF Types
  <2>2. /\ previous[t] \in Seq(Entries(t))
        /\ \A i \in DOMAIN previous[t] : Named(identity[t], t, previous[t][i])
    BY <2>1 DEF EngineInv, EngineTypes, EngineNames
  <2>3. \A i \in DOMAIN previous[t] : previous[t][i] \in Entries(t)
    BY <2>2
  <2>4. \A e \in Entries(t) : e.ordinal \in Nat
    BY DEF Entries
  <2> QED BY <2>1, <2>2, <2>3, <2>4
<1>2. \A i \in where : IsGone(t, i) /\ identity[t][key(i)] = previous[t][i].ordinal
  BY <1>1 DEF Named, IsGone
<1>3. \A i \in DOMAIN previous[t] : IsGone(t, i) => i \in where
  BY DEF IsGone
<1>4. DOMAIN previous[t] = 1..Len(previous[t]) /\ Len(previous[t]) \in Nat
  BY <1>1
<1>5. where \subseteq Nat /\ where \subseteq DOMAIN previous[t] /\ IsFiniteSet(where)
  <2>1. IsFiniteSet(DOMAIN previous[t])
    <3>1. IsFiniteSet(1..Len(previous[t]))
      BY <1>4, FirstIsFinite
    <3> QED BY <1>4, <3>1, Zenon
  <2>2. where \subseteq DOMAIN previous[t]
    OBVIOUS
  <2> HIDE DEF where
  <2> QED BY <1>4, <2>1, <2>2, FS_Subset
<1>6. /\ Cardinality(where) \in Nat
      /\ gone \in [1..Cardinality(where) -> where]
      /\ \A i \in where : \E k \in DOMAIN gone : gone[k] = i
  <2> HIDE DEF where
  <2> QED BY <1>5, InOrderLists
<1>7. out = [k \in DOMAIN gone |-> DeltaDelete(identity[t][key(gone[k])])]
  BY DEF CalculateDeletesForType
<1> HIDE DEF where, gone, key
<1>8. ASSUME NEW k \in DOMAIN gone
      PROVE  /\ gone[k] \in where /\ IsGone(t, gone[k]) /\ gone[k] \in DOMAIN previous[t]
             /\ out[k] = DeltaDelete(previous[t][gone[k]].ordinal)
  BY <1>2, <1>5, <1>6, <1>7
<1>9. DOMAIN out = 1..Cardinality(where) /\ DOMAIN gone = 1..Cardinality(where)
  BY <1>6, <1>7
<1>10. out \in Seq(Deletes)
  <2>1. \A k \in 1..Cardinality(where) : out[k] \in Deletes
    BY <1>1, <1>8, <1>9 DEF DeltaDelete, Deletes
  <2>2. out = [k \in 1..Cardinality(where) |-> out[k]]
    BY <1>7, <1>9
  <2> HIDE DEF out
  <2> QED BY <1>6, <2>1, <2>2
<1>11. \A k \in DOMAIN out : \E i \in DOMAIN previous[t] :
         IsGone(t, i) /\ out[k] = DeltaDelete(previous[t][i].ordinal)
  BY <1>8, <1>9
<1>12. ASSUME NEW i \in DOMAIN previous[t], IsGone(t, i)
       PROVE  \E k \in DOMAIN out : out[k] = DeltaDelete(previous[t][i].ordinal)
  <2>1. PICK k \in DOMAIN gone : gone[k] = i
    BY <1>3, <1>6, <1>12
  <2> QED BY <1>8, <1>9, <2>1
<1> QED BY <1>10, <1>11, <1>12

LEMMA JoinedList ==
  ASSUME NEW S, NEW a \in Seq(S), NEW b \in Seq(S)
  PROVE  /\ a \o b \in Seq(S)
         /\ DOMAIN (a \o b) = 1..(Len(a) + Len(b))
         /\ \A i \in DOMAIN (a \o b) :
              \/ i \in DOMAIN a /\ (a \o b)[i] = a[i]
              \/ i - Len(a) \in DOMAIN b /\ (a \o b)[i] = b[i - Len(a)]
         /\ \A i \in DOMAIN a : i \in DOMAIN (a \o b) /\ (a \o b)[i] = a[i]
         /\ \A i \in DOMAIN b : Len(a) + i \in DOMAIN (a \o b) /\ (a \o b)[Len(a) + i] = b[i]
OBVIOUS

(* The change records of a keyed type when the cycle is ready. *)
LEMMA DeltaIsMerged ==
  ASSUME EngineInv, NEW t \in KeyedTypes, CalculateDeletes
  PROVE  /\ delta'[t] \in Seq(ChangesOf(Records[t]))
         /\ \A k \in DOMAIN delta'[t] :
              \/ \E i \in DOMAIN delta[t] : delta'[t][k] = delta[t][i]
              \/ \E i \in DOMAIN previous[t] :
                   IsGone(t, i) /\ delta'[t][k] = DeltaDelete(previous[t][i].ordinal)
         /\ \A i \in DOMAIN delta[t] : \E k \in DOMAIN delta'[t] :
              delta'[t][k].ordinal = delta[t][i].ordinal
         /\ \A i \in DOMAIN previous[t] : IsGone(t, i) =>
              \E k \in DOMAIN delta'[t] : delta'[t][k].ordinal = previous[t][i].ordinal
         /\ \A j, k \in DOMAIN delta'[t] :
              delta'[t][j].ordinal = delta'[t][k].ordinal => j = k
         /\ \A j, k \in DOMAIN delta'[t] :
              j < k => delta'[t][j].ordinal < delta'[t][k].ordinal
<1> DEFINE V == Records[t]
           deletes == CalculateDeletesForType(t)
           all == delta[t] \o deletes
           out == OptimizeTypeDelta(all)
<1>1. t \in Types
  BY DEF Types
<1>2. delta'[t] = out
  BY <1>1 DEF CalculateDeletes
<1>3. delta[t] \in Seq(ChangesOf(V))
  BY <1>1 DEF EngineInv, EngineTypes
<1>4. /\ deletes \in Seq(Deletes)
      /\ \A k \in DOMAIN deletes : \E i \in DOMAIN previous[t] :
           IsGone(t, i) /\ deletes[k] = DeltaDelete(previous[t][i].ordinal)
      /\ \A i \in DOMAIN previous[t] : IsGone(t, i) =>
           \E k \in DOMAIN deletes : deletes[k] = DeltaDelete(previous[t][i].ordinal)
  BY GoneAreDeleted
<1> HIDE DEF V, deletes
<1>5. deletes \in Seq(ChangesOf(V))
  <2>1. Deletes \subseteq ChangesOf(V)
    BY DEF ChangesOf
  <2> QED BY <1>4, <2>1
<1>6. /\ all \in Seq(ChangesOf(V))
      /\ \A i \in DOMAIN all :
           \/ i \in DOMAIN delta[t] /\ all[i] = delta[t][i]
           \/ i - Len(delta[t]) \in DOMAIN deletes /\ all[i] = deletes[i - Len(delta[t])]
      /\ \A i \in DOMAIN delta[t] : i \in DOMAIN all /\ all[i] = delta[t][i]
      /\ \A i \in DOMAIN deletes :
           Len(delta[t]) + i \in DOMAIN all /\ all[Len(delta[t]) + i] = deletes[i]
  <2> DEFINE C == ChangesOf(V)
             noted == delta[t]
  <2>1. noted \in Seq(C) /\ deletes \in Seq(C)
    BY <1>3, <1>5
  <2> HIDE DEF EngineInv, C, noted
  <2>2. /\ noted \o deletes \in Seq(C)
        /\ \A i \in DOMAIN (noted \o deletes) :
             \/ i \in DOMAIN noted /\ (noted \o deletes)[i] = noted[i]
             \/ /\ i - Len(noted) \in DOMAIN deletes
                /\ (noted \o deletes)[i] = deletes[i - Len(noted)]
        /\ \A i \in DOMAIN noted :
             i \in DOMAIN (noted \o deletes) /\ (noted \o deletes)[i] = noted[i]
        /\ \A i \in DOMAIN deletes :
             /\ Len(noted) + i \in DOMAIN (noted \o deletes)
             /\ (noted \o deletes)[Len(noted) + i] = deletes[i]
    BY <2>1, JoinedList
  <2> QED BY <2>2 DEF C, noted
<1> HIDE DEF all
<1>7. \A s \in ChangesOf(V) : s.ordinal \in Nat
  BY DEF ChangesOf, Updates, Deletes
<1>8. /\ out \in Seq(ChangesOf(V))
      /\ \A k \in DOMAIN out : \E i \in DOMAIN all : out[k] = all[i]
      /\ \A i \in DOMAIN all : \E k \in DOMAIN out : out[k].ordinal = all[i].ordinal
      /\ \A j, k \in DOMAIN out : out[j].ordinal = out[k].ordinal => j = k
      /\ \A j, k \in DOMAIN out : j < k => out[j].ordinal < out[k].ordinal
  BY <1>6, <1>7, OptimizeKeeps
<1> HIDE DEF out
<1>9. ASSUME NEW k \in DOMAIN out
      PROVE  \/ \E i \in DOMAIN delta[t] : out[k] = delta[t][i]
             \/ \E i \in DOMAIN previous[t] :
                  IsGone(t, i) /\ out[k] = DeltaDelete(previous[t][i].ordinal)
  <2>1. PICK i \in DOMAIN all : out[k] = all[i]
    BY <1>8
  <2>2. CASE i \in DOMAIN delta[t] /\ all[i] = delta[t][i]
    BY <2>1, <2>2
  <2>3. CASE i - Len(delta[t]) \in DOMAIN deletes /\ all[i] = deletes[i - Len(delta[t])]
    BY <1>4, <2>1, <2>3
  <2> QED BY <1>6, <2>2, <2>3
<1>10. ASSUME NEW i \in DOMAIN delta[t]
       PROVE  \E k \in DOMAIN out : out[k].ordinal = delta[t][i].ordinal
  <2>1. i \in DOMAIN all /\ all[i] = delta[t][i]
    BY <1>6
  <2> QED BY <1>8, <2>1
<1>11. ASSUME NEW i \in DOMAIN previous[t], IsGone(t, i)
       PROVE  \E k \in DOMAIN out : out[k].ordinal = previous[t][i].ordinal
  <2>1. PICK n \in DOMAIN deletes : deletes[n] = DeltaDelete(previous[t][i].ordinal)
    BY <1>4, <1>11
  <2>2. PICK m \in DOMAIN all : all[m] = deletes[n]
    BY <1>6
  <2>3. PICK k \in DOMAIN out : out[k].ordinal = all[m].ordinal
    BY <1>8
  <2> QED BY <2>1, <2>2, <2>3 DEF DeltaDelete
<1> QED BY <1>2, <1>8, <1>9, <1>10, <1>11 DEF V

(* There are never more shards than records, but for the smallest counts. *)
LEMMA CountsAreSmall ==
  ASSUME EngineInv, NEW t \in Types
  PROVE  NewShardCount(t) \in 1..(MaxRecords + 1)
<1> DEFINE L == Len(current[t])
           T == TargetMaxTypeShardSize
           q == (L + T - 1) \div T
<1>1. /\ L \in Nat /\ L <= MaxRecords /\ MaxRecords \in Nat /\ T \in Nat /\ T >= 1
      /\ shardCounts[t] \in 1..(MaxRecords + 1)
  BY ShardsAssumption DEF EngineInv, EngineTypes
<1>2. NewShardCount(t) = IF L <= T THEN shardCounts[t] ELSE IF q < 2 THEN 2 ELSE q
  BY DEF NewShardCount
<1> HIDE DEF L, T
<1>3. q \in Int /\ q * T <= L + T - 1
  <2> DEFINE a == L + T - 1
  <2>1. a \in Int /\ T \in Int /\ T > 0
    BY <1>1
  <2> HIDE DEF a
  <2>2. a \div T \in Int /\ a = T * (a \div T) + (a % T) /\ a % T \in 0..(T - 1)
    BY <2>1
  <2>3. (a \div T) * T = T * (a \div T)
    BY <2>1, <2>2
  <2>4. (a \div T) * T <= a
    BY <2>1, <2>2, <2>3
  <2> QED BY <2>2, <2>4 DEF a
<1> HIDE DEF q
<1>4. CASE L > T /\ q >= 2
  <2>1. (q - 1) * (T - 1) >= 0
    BY <1>1, <1>3, <1>4
  <2>2. (q - 1) * (T - 1) = q * T - q - T + 1
    BY <1>1, <1>3
  <2>3. q * T \in Int
    BY <1>1, <1>3
  <2>4. q <= L
    <3> DEFINE p == q * T
    <3> HIDE DEF p
    <3>1. p \in Int /\ p - q - T + 1 >= 0 /\ p <= L + T - 1
      BY <1>3, <2>1, <2>2, <2>3 DEF p
    <3> QED BY <1>1, <1>3, <3>1
  <2> QED BY <1>1, <1>2, <1>3, <1>4, <2>4
<1>5. CASE L > T /\ q < 2
  BY <1>1, <1>2, <1>5
<1>6. CASE L <= T
  BY <1>1, <1>2, <1>6
<1> QED BY <1>1, <1>3, <1>4, <1>5, <1>6

(* Resharding moves records, and changes nothing else about them. *)
LEMMA ReshardingMoves ==
  ASSUME EngineInv, PerformResharding \/ UNCHANGED <<current, shardCounts>>
  PROVE  /\ DOMAIN current' = Types /\ DOMAIN shardCounts' = Types
         /\ \A t \in Types :
              /\ shardCounts'[t] \in 1..(MaxRecords + 1)
              /\ current'[t] \in Seq(Entries(t)) /\ Len(current'[t]) = Len(current[t])
              /\ DOMAIN current'[t] = DOMAIN current[t]
              /\ \A i \in DOMAIN current[t] :
                   /\ current'[t][i].value = current[t][i].value
                   /\ current'[t][i].ordinal = current[t][i].ordinal
                   /\ t \in KeyedTypes => current'[t][i].shard =
                        ShardOf(ExtractPrimaryKey(t, current[t][i].value), shardCounts'[t])
<1>1. \A t \in Types : current[t] \in Seq(Entries(t)) /\ shardCounts[t] \in 1..(MaxRecords + 1)
  BY DEF EngineInv, EngineTypes
<1>2. CASE UNCHANGED <<current, shardCounts>>
  <2>1. \A t \in KeyedTypes : \A i \in DOMAIN current[t] : current[t][i].shard =
          ShardOf(ExtractPrimaryKey(t, current[t][i].value), shardCounts[t])
    BY DEF EngineInv, EngineShards
  <2>2. DOMAIN current = Types /\ DOMAIN shardCounts = Types
    BY DEF EngineInv, EngineTypes
  <2> QED BY <1>1, <1>2, <2>1, <2>2
<1>3. CASE PerformResharding
  <2>1. shardCounts' = [t \in Types |-> NewShardCount(t)]
    BY <1>3 DEF PerformResharding
  <2>2. DOMAIN current' = Types /\ DOMAIN shardCounts' = Types
    BY <1>3 DEF PerformResharding
  <2>3. ASSUME NEW t \in Types
        PROVE  /\ shardCounts'[t] \in 1..(MaxRecords + 1)
               /\ current'[t] \in Seq(Entries(t)) /\ Len(current'[t]) = Len(current[t])
               /\ DOMAIN current'[t] = DOMAIN current[t]
               /\ \A i \in DOMAIN current[t] :
                    /\ current'[t][i].value = current[t][i].value
                    /\ current'[t][i].ordinal = current[t][i].ordinal
                    /\ t \in KeyedTypes => current'[t][i].shard =
                         ShardOf(ExtractPrimaryKey(t, current[t][i].value), shardCounts'[t])
    <3>1. shardCounts'[t] \in 1..(MaxRecords + 1)
      BY <2>1, CountsAreSmall
    <3> DEFINE list == current[t]
               count == shardCounts'[t]
               moved(i) == [list[i] EXCEPT !.shard =
                              ShardOf(ExtractPrimaryKey(t, list[i].value), count)]
    <3>2. current'[t] = [i \in DOMAIN list |-> IF t \in KeyedTypes THEN moved(i) ELSE list[i]]
      BY <1>3 DEF PerformResharding
    <3>3. /\ list \in Seq(Entries(t)) /\ Len(list) \in Nat /\ DOMAIN list = 1..Len(list)
          /\ \A i \in DOMAIN list : list[i] \in Entries(t)
      BY <1>1
    <3> HIDE DEF list
    <3>4. ASSUME NEW i \in DOMAIN list, t \in KeyedTypes
          PROVE  /\ moved(i) \in Entries(t)
                 /\ moved(i).value = list[i].value
                 /\ moved(i).ordinal = list[i].ordinal
                 /\ moved(i).shard = ShardOf(ExtractPrimaryKey(t, list[i].value), count)
      <4>1. list[i].value \in Records[t]
        BY <3>3 DEF Entries
      <4>2. ShardOf(ExtractPrimaryKey(t, list[i].value), count) \in 0..MaxRecords
        BY <3>1, <3>4, <4>1, KeysHaveHashes
      <4> DEFINE s == ShardOf(ExtractPrimaryKey(t, list[i].value), count)
      <4> HIDE DEF s, count
      <4>3. s \in 0..MaxRecords /\ moved(i) = [list[i] EXCEPT !.shard = s]
        BY <4>2 DEF s
      <4> QED BY <3>3, <3>4, <4>3 DEF Entries, s
    <3> HIDE DEF moved
    <3>5. DOMAIN current'[t] = 1..Len(list)
      BY <3>2, <3>3
    <3>6. \A i \in 1..Len(list) : current'[t][i] \in Entries(t)
      BY <3>2, <3>3, <3>4
    <3>7. current'[t] = [i \in 1..Len(list) |-> current'[t][i]]
      BY <3>2, <3>3
    <3>8. current'[t] \in Seq(Entries(t)) /\ Len(current'[t]) = Len(list)
      BY <3>3, <3>6, <3>7
    <3>9. \A i \in DOMAIN list :
            /\ current'[t][i].value = list[i].value
            /\ current'[t][i].ordinal = list[i].ordinal
            /\ t \in KeyedTypes => current'[t][i].shard =
                 ShardOf(ExtractPrimaryKey(t, list[i].value), count)
      BY <3>2, <3>4
    <3> QED BY <3>1, <3>3, <3>5, <3>8, <3>9 DEF list
  <2> QED BY <2>2, <2>3
<1> QED BY <1>2, <1>3

LEMMA ValuesAreTyped ==
  ASSUME EngineInv, NEW t \in Types
  PROVE  /\ ValuesOf(previous[t]) \in Seq(Records[t])
         /\ ValuesOf(current[t]) \in Seq(Records[t])
<1>1. \A list \in Seq(Entries(t)) : ValuesOf(list) \in Seq(Records[t])
  <2> TAKE list \in Seq(Entries(t))
  <2>1. /\ Len(list) \in Nat /\ DOMAIN list = 1..Len(list)
        /\ \A i \in DOMAIN list : list[i] \in Entries(t)
    OBVIOUS
  <2>2. \A i \in DOMAIN list : list[i].value \in Records[t]
    BY <2>1 DEF Entries
  <2> QED BY <2>1, <2>2 DEF ValuesOf
<1> QED BY <1>1 DEF EngineInv, EngineTypes

LEMMA FinishKeepsEngine ==
  ASSUME EngineInv, FinishPopulating
  PROVE  EngineInv'
<1>1. /\ PerformResharding \/ UNCHANGED <<current, shardCounts>>
      /\ CalculateDeletes
      /\ phase' = "ready" /\ UNCHANGED <<setting, previous, identity, published>>
  BY DEF FinishPopulating, pipelineVars
<1>2. /\ DOMAIN current' = Types /\ DOMAIN shardCounts' = Types
      /\ \A t \in Types :
           /\ shardCounts'[t] \in 1..(MaxRecords + 1)
           /\ current'[t] \in Seq(Entries(t)) /\ Len(current'[t]) = Len(current[t])
           /\ DOMAIN current'[t] = DOMAIN current[t]
           /\ \A i \in DOMAIN current[t] :
                /\ current'[t][i].value = current[t][i].value
                /\ current'[t][i].ordinal = current[t][i].ordinal
                /\ t \in KeyedTypes => current'[t][i].shard =
                     ShardOf(ExtractPrimaryKey(t, current[t][i].value), shardCounts'[t])
  BY <1>1, ReshardingMoves
<1>3. DOMAIN delta' = Types
  BY <1>1 DEF CalculateDeletes
<1>4. ASSUME NEW t \in Types PROVE delta'[t] \in Seq(ChangesOf(Records[t]))
  <2>1. CASE t \in KeyedTypes
    BY <1>1, <2>1, DeltaIsMerged
  <2>2. CASE t \notin KeyedTypes /\ t \in PlainTypes
    <3>1. delta'[t] = DeltaOfPlain(ValuesOf(previous[t]), ValuesOf(current[t]))
      BY <1>1, <2>2 DEF CalculateDeletes
    <3> QED BY <3>1, ValuesAreTyped, PlainIsTyped
  <2>3. CASE t \notin KeyedTypes /\ t \notin PlainTypes
    <3>1. delta'[t] = <<>>
      BY <1>1, <2>3 DEF CalculateDeletes
    <3> QED BY <3>1
  <2> QED BY <2>1, <2>2, <2>3
<1>5. EngineTypes'
  <2>1. /\ setting \in Settings /\ DOMAIN previous = Types /\ DOMAIN published = Types
        /\ \A t \in Types :
             /\ previous[t] \in Seq(Entries(t)) /\ Len(previous[t]) <= MaxRecords
             /\ Len(current[t]) <= MaxRecords /\ published[t] \in Seq(Records[t])
    BY DEF EngineInv, EngineTypes
  <2> QED BY <1>1, <1>2, <1>3, <1>4, <2>1 DEF EngineTypes
<1>6. EngineNames'
  <2>1. ASSUME NEW t \in KeyedTypes
        PROVE  /\ IsNaming(identity[t])
               /\ \A i \in DOMAIN previous[t] : Named(identity[t], t, previous[t][i])
               /\ \A i \in DOMAIN current'[t] : Named(identity[t], t, current'[t][i])
               /\ \A i \in DOMAIN delta'[t] :
                    delta'[t][i].op # "delete" => Named(identity[t], t, delta'[t][i])
    <3>1. /\ t \in Types /\ IsNaming(identity[t])
          /\ \A i \in DOMAIN previous[t] : Named(identity[t], t, previous[t][i])
          /\ \A i \in DOMAIN current[t] : Named(identity[t], t, current[t][i])
          /\ \A i \in DOMAIN delta[t] :
               delta[t][i].op # "delete" => Named(identity[t], t, delta[t][i])
      BY DEF EngineInv, EngineNames, Types
    <3>2. \A i \in DOMAIN current'[t] : Named(identity[t], t, current'[t][i])
      BY <1>2, <3>1 DEF Named
    <3>3. \A k \in DOMAIN delta'[t] :
            \/ \E i \in DOMAIN delta[t] : delta'[t][k] = delta[t][i]
            \/ \E i \in DOMAIN previous[t] :
                 IsGone(t, i) /\ delta'[t][k] = DeltaDelete(previous[t][i].ordinal)
      BY <1>1, DeltaIsMerged
    <3>4. ASSUME NEW k \in DOMAIN delta'[t], delta'[t][k].op # "delete"
          PROVE  Named(identity[t], t, delta'[t][k])
      <4>1. \A o : DeltaDelete(o).op = "delete"
        BY DEF DeltaDelete
      <4>2. PICK i \in DOMAIN delta[t] : delta'[t][k] = delta[t][i]
        BY <3>3, <3>4, <4>1
      <4>3. Named(identity[t], t, delta[t][i])
        BY <3>1, <3>4, <4>2
      <4> QED BY <4>2, <4>3
    <3> QED BY <3>1, <3>2, <3>4
  <2>2. DOMAIN identity' = KeyedTypes
    BY <1>1 DEF EngineInv, EngineNames
  <2> QED BY <1>1, <2>1, <2>2 DEF EngineNames
<1>7. EngineShards'
  <2>1. \A t \in KeyedTypes : t \in Types
    BY DEF Types
  <2> QED BY <1>2, <2>1 DEF EngineShards
<1> QED BY <1>5, <1>6, <1>7 DEF EngineInv

LEMMA PrepareKeepsEngine ==
  ASSUME EngineInv, PrepareForCycle, phase' \in {"idle", "populating"},
         UNCHANGED <<setting, published>>
  PROVE  EngineInv'
<1>1. /\ previous' = current /\ current' = NoRecords /\ delta' = NoRecords
      /\ UNCHANGED <<identity, shardCounts>>
  BY DEF PrepareForCycle
<1>2. /\ DOMAIN NoRecords = Types /\ \A t \in Types : NoRecords[t] = <<>>
      /\ \A t \in KeyedTypes : t \in Types
  BY DEF NoRecords, Types
<1>3. MaxRecords \in Nat
  BY ShardsAssumption
<1>4. EngineTypes'
  <2>1. ASSUME NEW t \in Types
        PROVE  /\ previous'[t] \in Seq(Entries(t)) /\ Len(previous'[t]) <= MaxRecords
               /\ current'[t] \in Seq(Entries(t)) /\ Len(current'[t]) <= MaxRecords
               /\ delta'[t] \in Seq(ChangesOf(Records[t]))
               /\ published'[t] \in Seq(Records[t])
               /\ shardCounts'[t] \in 1..(MaxRecords + 1)
    <3>1. /\ current[t] \in Seq(Entries(t)) /\ Len(current[t]) <= MaxRecords
          /\ published[t] \in Seq(Records[t]) /\ shardCounts[t] \in 1..(MaxRecords + 1)
      BY DEF EngineInv, EngineTypes
    <3>2. <<>> \in Seq(Entries(t)) /\ <<>> \in Seq(ChangesOf(Records[t])) /\ Len(<<>>) <= MaxRecords
      BY <1>3
    <3> QED BY <1>1, <1>2, <3>1, <3>2
  <2>2. /\ setting' \in Settings /\ phase' \in {"idle", "populating", "ready"}
        /\ DOMAIN previous' = Types /\ DOMAIN current' = Types /\ DOMAIN delta' = Types
        /\ DOMAIN published' = Types /\ DOMAIN shardCounts' = Types
    BY <1>1, <1>2 DEF EngineInv, EngineTypes
  <2> QED BY <2>1, <2>2 DEF EngineTypes
<1>5. EngineNames'
  <2>1. \A t \in KeyedTypes : DOMAIN current'[t] = {} /\ DOMAIN delta'[t] = {}
    BY <1>1, <1>2
  <2> QED BY <1>1, <2>1 DEF EngineInv, EngineNames
<1>6. EngineShards'
  <2>1. \A t \in KeyedTypes : DOMAIN current'[t] = {}
    BY <1>1, <1>2
  <2> QED BY <2>1 DEF EngineShards
<1> QED BY <1>4, <1>5, <1>6 DEF EngineInv

Counters == distance \in 0..setting.NumStatesBetweenSnapshots /\ stuck \in BOOLEAN

(* A publication only notes what was published. *)
LEMMA PublishKeepsEngine ==
  ASSUME EngineInv, PublishSnapshot \/ PublishDelta
  PROVE  EngineInv'
<1>1. /\ published' = Values(current) /\ phase' = "idle"
      /\ UNCHANGED <<setting, previous, current, identity, shardCounts, delta>>
  BY DEF PublishSnapshot, PublishDelta
<1>2. DOMAIN published' = Types /\ \A t \in Types : published'[t] \in Seq(Records[t])
  BY <1>1, ValuesAreTyped DEF Values
<1>3. EngineTypes'
  BY <1>1, <1>2 DEF EngineInv, EngineTypes
<1>4. EngineNames' /\ EngineShards'
  BY <1>1 DEF EngineInv, EngineNames, EngineShards
<1> QED BY <1>3, <1>4 DEF EngineInv

LEMMA SameKeepsEngine ==
  ASSUME EngineInv, phase' \in {"idle", "populating", "ready"},
         UNCHANGED <<setting, published, previous, current, identity, shardCounts, delta>>
  PROVE  EngineInv'
<1>1. EngineTypes'
  BY DEF EngineInv, EngineTypes
<1>2. EngineNames' /\ EngineShards'
  BY DEF EngineInv, EngineNames, EngineShards
<1> QED BY <1>1, <1>2 DEF EngineInv

LEMMA EngineStep == EngineInv /\ [Next]_vars => EngineInv'
<1> SUFFICES ASSUME EngineInv, [Next]_vars PROVE EngineInv'
  OBVIOUS
<1>1. CASE StartCycle
  BY <1>1, PrepareKeepsEngine DEF StartCycle, pipelineVars
<1>2. CASE Populate
  <2>1. PICK t \in Types : \E r \in setting.offered[t] : Add(t, r)
    BY <1>2 DEF Populate
  <2>2. PICK r \in setting.offered[t] : Add(t, r)
    BY <2>1
  <2>3. r \in Records[t]
    <3>1. setting \in Settings
      BY DEF EngineInv, EngineTypes
    <3> QED BY <3>1, PipelineAssumption
  <2>4. UNCHANGED <<setting, published>>
    BY <1>2 DEF Populate, pipelineVars
  <2> QED BY <2>2, <2>3, <2>4, AddKeepsEngine
<1>3. CASE EmptyCycle
  BY <1>3, SameKeepsEngine DEF EmptyCycle, pipelineVars
<1>4. CASE IdenticalCycle
  BY <1>4, SameKeepsEngine DEF IdenticalCycle, pipelineVars
<1>5. CASE FinishPopulating
  BY <1>5, FinishKeepsEngine
<1>6. CASE Reject
  BY <1>6, PrepareKeepsEngine DEF Reject, pipelineVars
<1>7. CASE PublishSnapshot \/ PublishDelta
  BY <1>7, PublishKeepsEngine
<1>8. CASE UNCHANGED vars
  <2>1. phase \in {"idle", "populating", "ready"}
    BY DEF EngineInv, EngineTypes
  <2> QED BY <1>8, <2>1, SameKeepsEngine DEF vars, engineVars, pipelineVars
<1> QED BY <1>1, <1>2, <1>3, <1>4, <1>5, <1>6, <1>7, <1>8 DEF Next

LEMMA CountersStep == EngineInv /\ Counters /\ [Next]_vars => Counters'
<1> SUFFICES ASSUME EngineInv, Counters, [Next]_vars PROVE Counters'
  OBVIOUS
<1>1. setting.NumStatesBetweenSnapshots \in Nat \ {0}
  BY PipelineAssumption DEF EngineInv, EngineTypes
<1>2. CASE PublishSnapshot
  <2>1. distance' = 1 /\ stuck' = FALSE /\ setting' = setting
    BY <1>2 DEF PublishSnapshot
  <2>2. 1 \in 0..setting.NumStatesBetweenSnapshots
    BY <1>1
  <2> QED BY <2>1, <2>2 DEF Counters
<1>3. CASE PublishDelta
  BY <1>1, <1>3 DEF PublishDelta, ShouldCreateSnapshot, Counters
<1>4. CASE UNCHANGED <<setting, pipelineVars>>
  BY <1>4 DEF Counters, pipelineVars
<1>5. CASE ~(PublishSnapshot \/ PublishDelta)
  <2>1. UNCHANGED <<setting, pipelineVars>>
    BY <1>5 DEF Next, StartCycle, Populate, EmptyCycle, IdenticalCycle, FinishPopulating,
                Reject, vars
  <2> QED BY <1>4, <2>1
<1> QED BY <1>2, <1>3, <1>5

LEMMA EngineInvariant == Spec => [](EngineInv /\ Counters)
<1>1. Init => EngineInv /\ Counters
  <2>1. ASSUME Init PROVE Counters
    <3>1. setting \in Settings /\ distance = 0 /\ stuck = FALSE
      BY <2>1 DEF Init
    <3>2. setting.NumStatesBetweenSnapshots \in Nat
      BY <3>1, PipelineAssumption
    <3>3. 0 \in 0..setting.NumStatesBetweenSnapshots
      BY <3>2
    <3> QED BY <3>1, <3>3 DEF Counters
  <2> QED BY <2>1, EngineStarts
<1> QED BY <1>1, EngineStep, CountersStep, PTL DEF Spec

LEMMA EntriesOfList ==
  ASSUME NEW S, NEW list \in Seq(S)
  PROVE  /\ ToSet(list) \subseteq S
         /\ \A e \in ToSet(list) : \E i \in DOMAIN list : e = list[i]
         /\ \A i \in DOMAIN list : list[i] \in ToSet(list)
BY DEF ToSet

(* Whoever asks is told the shard in which the record is. *)
LEMMA AskedShards ==
  ASSUME EngineInv, NEW t \in KeyedTypes, NEW e \in ToSet(current[t])
  PROVE  LET asked == ComputeShardForPrimaryKey(t, ExtractPrimaryKey(t, e.value))
         IN  {e.shard} = asked /\ GetShardByOrdinal(t, e.ordinal) = asked
<1> DEFINE key(x) == ExtractPrimaryKey(t, x.value)
           same == {i \in WithOrdinal(current[t], e.ordinal) : current[t][i].wrapped}
<1>1. t \in Types
  BY DEF Types
<1>2. /\ current[t] \in Seq(Entries(t)) /\ IsNaming(identity[t])
      /\ \A i \in DOMAIN current[t] : Named(identity[t], t, current[t][i])
      /\ \A i \in DOMAIN current[t] :
           current[t][i].shard = ShardOf(key(current[t][i]), shardCounts[t])
  BY <1>1 DEF EngineInv, EngineTypes, EngineNames, EngineShards
<1>3. PICK j \in DOMAIN current[t] : e = current[t][j]
  BY <1>2, EntriesOfList
<1>4. \A i \in DOMAIN current[t] : i \in Nat /\ current[t][i].wrapped
  <2>1. \A i \in DOMAIN current[t] : i \in Nat /\ current[t][i] \in Entries(t)
    BY <1>2
  <2>2. \A x \in Entries(t) : x.wrapped
    BY DEF Entries
  <2> QED BY <2>1, <2>2
<1>5. /\ same \subseteq Nat /\ j \in same
      /\ \A i \in same : i \in DOMAIN current[t] /\ current[t][i].ordinal = e.ordinal
  BY <1>3, <1>4 DEF WithOrdinal
<1>6. Min(same) \in same
  <2> HIDE DEF same
  <2> QED BY <1>5, MinIs
<1>7. GetShardByOrdinal(t, e.ordinal) = {current[t][Min(same)].shard}
  BY <1>5 DEF GetShardByOrdinal
<1> HIDE DEF same
<1>8. PICK i \in DOMAIN current[t] : i = Min(same) /\ current[t][i].ordinal = e.ordinal
  BY <1>5, <1>6
<1>9. key(current[t][i]) = key(e)
  BY <1>2, <1>3, <1>8 DEF Named, IsNaming
<1>10. ComputeShardForPrimaryKey(t, key(e)) = {ShardOf(key(e), shardCounts[t])}
  BY DEF ComputeShardForPrimaryKey, GetNumShards
<1>11. e.shard = ShardOf(key(e), shardCounts[t])
  BY <1>2, <1>3
<1>12. current[t][i].shard = ShardOf(key(e), shardCounts[t])
  BY <1>2, <1>8, <1>9
<1> QED BY <1>7, <1>8, <1>10, <1>11, <1>12

(***************************************************************************)
(* Over any chain of cycles, rejected, empty or identical ones and         *)
(* resharding included (state.go, GetOrCreateOrdinal, PerformResharding),  *)
(* an ordinal means one key, no ordinal is left out, and every record sits *)
(* in the shard of its key and is found there.                             *)
(***************************************************************************)
THEOREM EngineStaysSound == Spec => []EngineIsSound
<1>1. ASSUME EngineInv, Counters PROVE TypeOK
  <2>1. \A t \in Types :
          /\ previous[t] \in Seq(Entries(t)) /\ Len(previous[t]) <= MaxRecords
          /\ current[t] \in Seq(Entries(t)) /\ Len(current[t]) <= MaxRecords
          /\ delta[t] \in Seq(ChangesOf(Records[t]))
          /\ published[t] \in Seq(Records[t])
          /\ shardCounts[t] \in 1..(MaxRecords + 1)
    BY <1>1 DEF EngineInv, EngineTypes
  <2>2. ASSUME NEW t \in Types
        PROVE  /\ ToSet(current[t]) \cup ToSet(previous[t]) \subseteq Entries(t)
               /\ ToSet(published[t]) \subseteq Records[t]
    BY <2>1, EntriesOfList
  <2>3. ASSUME NEW t \in Types
        PROVE  {d.op : d \in ToSet(delta[t])} \subseteq {"add", "update", "delete"}
    <3>1. ToSet(delta[t]) \subseteq ChangesOf(Records[t])
      BY <2>1, EntriesOfList
    <3>2. \A d \in ChangesOf(Records[t]) : d.op \in {"add", "update", "delete"}
      BY DEF ChangesOf, Updates, Deletes
    <3> QED BY <3>1, <3>2
  <2>4. /\ phase \in {"idle", "populating", "ready"}
        /\ distance \in 0..setting.NumStatesBetweenSnapshots /\ stuck \in BOOLEAN
    BY <1>1 DEF EngineInv, EngineTypes, Counters
  <2> QED BY <2>1, <2>2, <2>3, <2>4 DEF TypeOK
<1>2. ASSUME EngineInv PROVE OrdinalsNameKeys
  <2>1. ASSUME NEW t \in KeyedTypes
        PROVE  /\ \A j, k \in DOMAIN identity[t] : identity[t][j] = identity[t][k] => j = k
               /\ OrdinalsOf(t) = 0..(Cardinality(DOMAIN identity[t]) - 1)
               /\ \A e \in ToSet(previous[t]) \cup ToSet(current[t]) :
                    LET key == ExtractPrimaryKey(t, e.value)
                    IN key \in DOMAIN identity[t] /\ e.ordinal = identity[t][key]
               /\ \A d \in ToSet(delta[t]) :
                    d.op # "delete" => d.ordinal = identity[t][ExtractPrimaryKey(t, d.value)]
    <3>1. /\ t \in Types /\ IsNaming(identity[t])
          /\ \A i \in DOMAIN previous[t] : Named(identity[t], t, previous[t][i])
          /\ \A i \in DOMAIN current[t] : Named(identity[t], t, current[t][i])
          /\ \A i \in DOMAIN delta[t] :
               delta[t][i].op # "delete" => Named(identity[t], t, delta[t][i])
      BY <1>2 DEF EngineInv, EngineNames, Types
    <3>2. /\ previous[t] \in Seq(Entries(t)) /\ current[t] \in Seq(Entries(t))
          /\ delta[t] \in Seq(ChangesOf(Records[t]))
      BY <1>2, <3>1 DEF EngineInv, EngineTypes
    <3>3. \A e \in ToSet(previous[t]) \cup ToSet(current[t]) : Named(identity[t], t, e)
      BY <3>1, <3>2, EntriesOfList
    <3>4. \A d \in ToSet(delta[t]) : d.op # "delete" => Named(identity[t], t, d)
      BY <3>1, <3>2, EntriesOfList
    <3>5. OrdinalsOf(t) = 0..(Cardinality(DOMAIN identity[t]) - 1)
      <4> DEFINE D == DOMAIN identity[t]
                 N == 0..(Cardinality(DOMAIN identity[t]) - 1)
      <4>1. \A k \in D : identity[t][k] \in N
        BY <3>1 DEF IsNaming
      <4>2. \A n \in N : \E k \in D : identity[t][k] = n
        BY <3>1 DEF IsNaming
      <4>3. OrdinalsOf(t) = {identity[t][k] : k \in D}
        BY DEF OrdinalsOf
      <4> HIDE DEF D, N
      <4>4. OrdinalsOf(t) = N
        BY <4>1, <4>2, <4>3
      <4> QED BY <4>4 DEF N
    <3>6. \A j, k \in DOMAIN identity[t] : identity[t][j] = identity[t][k] => j = k
      BY <3>1 DEF IsNaming
    <3> QED BY <3>3, <3>4, <3>5, <3>6 DEF Named
  <2> QED BY <2>1 DEF OrdinalsNameKeys
<1>3. ASSUME EngineInv PROVE ShardsMatchCount
  BY <1>3, AskedShards DEF ShardsMatchCount
<1>4. EngineInv /\ Counters => EngineIsSound
  BY <1>1, <1>2, <1>3 DEF EngineIsSound
<1> QED BY <1>4, EngineInvariant, PTL

(***************************************************************************)
(* What the change records say                                             *)
(***************************************************************************)
Holds(list, ordinal, value) ==
  \E i \in DOMAIN list : list[i].ordinal = ordinal /\ list[i].value = value
HasOrdinal(list, ordinal) == \E i \in DOMAIN list : list[i].ordinal = ordinal

(* No ordinal twice: as ordinals name keys, no key twice. *)
Once(list) == \A i, j \in DOMAIN list : list[i].ordinal = list[j].ordinal => i = j

(* The change brings a record of the new state that the old did not have. *)
Brings(d, old, new) ==
  d.op # "delete" /\ Holds(new, d.ordinal, d.value) /\ ~Holds(old, d.ordinal, d.value)

(* The change takes away an ordinal that the new state does not have. *)
TakesAway(d, old, new) ==
  d.op = "delete" /\ HasOrdinal(old, d.ordinal) /\ ~HasOrdinal(new, d.ordinal)

(* What changed has a change record. *)
AllTold(old, new, changes) ==
  \A j \in DOMAIN new :
    HasOrdinal(changes, new[j].ordinal) \/ Holds(old, new[j].ordinal, new[j].value)

(* While the callback runs only adds and updates are recorded. *)
Recording(old, new, changes) ==
  /\ \A k \in DOMAIN changes : Brings(changes[k], old, new)
  /\ AllTold(old, new, changes)

Recorded(old, new, changes) ==
  /\ \A k \in DOMAIN changes :
       Brings(changes[k], old, new) \/ TakesAway(changes[k], old, new)
  /\ AllTold(old, new, changes)
  /\ \A i \in DOMAIN old : HasOrdinal(new, old[i].ordinal) \/ HasOrdinal(changes, old[i].ordinal)
  /\ Once(changes)

KeysOnce == "repeat" \notin setting.shapes

OnceInv ==
  \A t \in KeyedTypes :
    /\ Once(previous[t]) /\ Once(current[t])
    /\ phase = "populating" => Recording(previous[t], current[t], delta[t])
    /\ phase = "ready" => Recorded(previous[t], current[t], delta[t])

(* A list that names no ordinal twice says at an ordinal what it holds. *)
LEMMA ValueOfOnce ==
  ASSUME NEW S, NEW list \in Seq(S), Once(list), NEW o
  PROVE  /\ HasOrdinal(list, o) => \E v : ValueAt(list, o) = {v} /\ Holds(list, o, v)
         /\ \A v : Holds(list, o, v) => ValueAt(list, o) = {v}
         /\ ~HasOrdinal(list, o) => ValueAt(list, o) = {}
<1> DEFINE same == WithOrdinal(list, o)
<1>1. Len(list) \in Nat /\ DOMAIN list = 1..Len(list)
  OBVIOUS
<1>2. /\ \A i \in same : i \in DOMAIN list /\ list[i].ordinal = o
      /\ \A i \in DOMAIN list : list[i].ordinal = o => i \in same
      /\ same \subseteq 0..Len(list)
  BY <1>1 DEF WithOrdinal
<1>3. ValueAt(list, o) = IF same = {} THEN {} ELSE {list[Max(same)].value}
  BY DEF ValueAt
<1> HIDE DEF same
<1>4. ASSUME ~HasOrdinal(list, o) PROVE ValueAt(list, o) = {}
  BY <1>2, <1>3, <1>4 DEF HasOrdinal
<1>5. ASSUME NEW i \in DOMAIN list, list[i].ordinal = o PROVE ValueAt(list, o) = {list[i].value}
  <2>1. same # {}
    BY <1>2, <1>5
  <2>2. Max(same) \in same
    BY <1>1, <1>2, <2>1, MaxIs
  <2>3. Max(same) = i
    BY <1>2, <1>5, <2>2 DEF Once
  <2> QED BY <1>3, <2>1, <2>3
<1>6. ASSUME NEW v, Holds(list, o, v) PROVE ValueAt(list, o) = {v}
  BY <1>5, <1>6 DEF Holds
<1>7. ASSUME HasOrdinal(list, o) PROVE \E v : ValueAt(list, o) = {v} /\ Holds(list, o, v)
  <2>1. PICK i \in DOMAIN list : list[i].ordinal = o
    BY <1>7 DEF HasOrdinal
  <2>2. Holds(list, o, list[i].value)
    BY <2>1 DEF Holds
  <2> QED BY <1>6, <2>2
<1> QED BY <1>4, <1>6, <1>7

(* The records of a finished delta turn the old values into the new ones. *)
LEMMA RecordedIsComplete ==
  ASSUME EngineInv, NEW t \in KeyedTypes, NEW o,
         Once(previous[t]), Once(current[t]), Recorded(previous[t], current[t], delta[t])
  PROVE  ValueAfter(t, o) = ValueAt(current[t], o)
<1> DEFINE changes == WithOrdinal(delta[t], o)
           last == delta[t][Max(changes)]
           old == previous[t]
           new == current[t]
<1>1. /\ old \in Seq(Entries(t)) /\ new \in Seq(Entries(t))
      /\ delta[t] \in Seq(ChangesOf(Records[t]))
      /\ DOMAIN delta[t] = 1..Len(delta[t]) /\ Len(delta[t]) \in Nat
  <2>1. t \in Types
    BY DEF Types
  <2>2. /\ old \in Seq(Entries(t)) /\ new \in Seq(Entries(t))
        /\ delta[t] \in Seq(ChangesOf(Records[t]))
    BY <2>1 DEF EngineInv, EngineTypes
  <2> HIDE DEF old, new
  <2> QED BY <2>2
<1>2. /\ \A i \in changes : i \in DOMAIN delta[t] /\ delta[t][i].ordinal = o
      /\ \A i \in DOMAIN delta[t] : delta[t][i].ordinal = o => i \in changes
      /\ changes \subseteq 0..Len(delta[t])
  BY <1>1 DEF WithOrdinal
<1>3. ValueAfter(t, o) = IF changes = {} THEN ValueAt(old, o)
                         ELSE IF last.op = "delete" THEN {} ELSE {last.value}
  BY DEF ValueAfter
<1> SUFFICES ValueAfter(t, o) = ValueAt(new, o)
  OBVIOUS
<1> HIDE DEF changes
<1>4. /\ \A k \in DOMAIN delta[t] : Brings(delta[t][k], old, new) \/ TakesAway(delta[t][k], old, new)
      /\ AllTold(old, new, delta[t])
      /\ \A i \in DOMAIN old : HasOrdinal(new, old[i].ordinal) \/ HasOrdinal(delta[t], old[i].ordinal)
      /\ Once(old) /\ Once(new)
  BY DEF Recorded
<1> HIDE DEF old, new
<1>5. /\ \A v : Holds(old, o, v) => ValueAt(old, o) = {v}
      /\ ~HasOrdinal(old, o) => ValueAt(old, o) = {}
      /\ \A v : Holds(new, o, v) => ValueAt(new, o) = {v}
      /\ ~HasOrdinal(new, o) => ValueAt(new, o) = {}
  BY <1>1, <1>4, ValueOfOnce
<1>6. CASE changes = {}
  <2>1. ~HasOrdinal(delta[t], o)
    BY <1>2, <1>6 DEF HasOrdinal
  <2>2. CASE HasOrdinal(new, o)
    <3>1. PICK j \in DOMAIN new : new[j].ordinal = o
      BY <2>2 DEF HasOrdinal
    <3>2. Holds(new, o, new[j].value) /\ Holds(old, o, new[j].value)
      <4>1. Holds(new, o, new[j].value)
        BY <3>1 DEF Holds
      <4>2. HasOrdinal(delta[t], new[j].ordinal) \/ Holds(old, new[j].ordinal, new[j].value)
        BY <1>4 DEF AllTold
      <4> QED BY <2>1, <3>1, <4>1, <4>2
    <3> QED BY <1>3, <1>5, <1>6, <3>2
  <2>3. CASE ~HasOrdinal(new, o)
    <3>1. ~HasOrdinal(old, o)
      <4>1. SUFFICES ASSUME NEW i \in DOMAIN old, old[i].ordinal = o PROVE FALSE
        BY DEF HasOrdinal
      <4> QED BY <1>4, <2>1, <2>3, <4>1
    <3> QED BY <1>3, <1>5, <1>6, <2>3, <3>1
  <2> QED BY <2>2, <2>3
<1>7. CASE changes # {}
  <2>1. Max(changes) \in changes
    BY <1>1, <1>2, <1>7, MaxIs
  <2>2. last.ordinal = o /\ (Brings(last, old, new) \/ TakesAway(last, old, new))
    BY <1>2, <1>4, <2>1
  <2> HIDE DEF last
  <2>3. CASE Brings(last, old, new)
    BY <1>3, <1>5, <1>7, <2>2, <2>3 DEF Brings
  <2>4. CASE TakesAway(last, old, new)
    BY <1>3, <1>5, <1>7, <2>2, <2>4 DEF TakesAway
  <2> QED BY <2>2, <2>3, <2>4
<1> QED BY <1>6, <1>7

(* And each of them changes something. *)
LEMMA RecordedIsMinimal ==
  ASSUME EngineInv, NEW t \in KeyedTypes, NEW k \in DOMAIN delta[t],
         Once(previous[t]), Once(current[t]), Recorded(previous[t], current[t], delta[t]),
         NEW o, o = delta[t][k].ordinal
  PROVE  ValueAt(previous[t], o) # ValueAt(current[t], o)
<1> DEFINE d == delta[t][k]
           old == previous[t]
           new == current[t]
<1>1. old \in Seq(Entries(t)) /\ new \in Seq(Entries(t))
  <2>1. t \in Types
    BY DEF Types
  <2> QED BY <2>1 DEF EngineInv, EngineTypes
<1>2. Brings(d, old, new) \/ TakesAway(d, old, new)
  BY DEF Recorded
<1>3. Once(old) /\ Once(new) /\ o = d.ordinal
  OBVIOUS
<1> HIDE DEF old, new, d
<1>4. /\ HasOrdinal(old, o) => \E v : ValueAt(old, o) = {v} /\ Holds(old, o, v)
      /\ ~HasOrdinal(old, o) => ValueAt(old, o) = {}
      /\ \A v : Holds(new, o, v) => ValueAt(new, o) = {v}
      /\ ~HasOrdinal(new, o) => ValueAt(new, o) = {}
  BY <1>1, <1>3, ValueOfOnce
<1>5. CASE Brings(d, old, new)
  <2>1. ValueAt(new, o) = {d.value} /\ ~Holds(old, o, d.value)
    BY <1>3, <1>4, <1>5 DEF Brings
  <2>2. CASE HasOrdinal(old, o)
    <3>1. PICK v : ValueAt(old, o) = {v} /\ Holds(old, o, v)
      BY <1>4, <2>2
    <3>2. v # d.value
      BY <2>1, <3>1
    <3> QED BY <2>1, <3>1, <3>2 DEF old, new
  <2>3. CASE ~HasOrdinal(old, o)
    BY <1>4, <2>1, <2>3 DEF old, new
  <2> QED BY <2>2, <2>3
<1>6. CASE TakesAway(d, old, new)
  <2>1. HasOrdinal(old, o) /\ ValueAt(new, o) = {}
    BY <1>3, <1>4, <1>6 DEF TakesAway
  <2>2. PICK v : ValueAt(old, o) = {v}
    BY <1>4, <2>1
  <2> QED BY <2>1, <2>2 DEF old, new
<1> QED BY <1>2, <1>5, <1>6

(* Two records have the same ordinal where they have the same key. *)
LEMMA OrdinalsAreKeys ==
  ASSUME NEW f, IsNaming(f), NEW t, NEW d, NEW e, Named(f, t, d), Named(f, t, e)
  PROVE  d.ordinal = e.ordinal <=> ExtractPrimaryKey(t, d.value) = ExtractPrimaryKey(t, e.value)
BY DEF IsNaming, Named

LEMMA GoneIsAbsent ==
  ASSUME EngineInv, NEW t \in KeyedTypes, NEW i \in DOMAIN previous[t]
  PROVE  IsGone(t, i) <=> ~HasOrdinal(current[t], previous[t][i].ordinal)
<1> DEFINE key(e) == ExtractPrimaryKey(t, e.value)
<1>1. t \in Types
  BY DEF Types
<1>2. /\ IsNaming(identity[t]) /\ current[t] \in Seq(Entries(t))
      /\ Named(identity[t], t, previous[t][i])
      /\ \A j \in DOMAIN current[t] : Named(identity[t], t, current[t][j])
  BY <1>1 DEF EngineInv, EngineTypes, EngineNames
<1>3. \A j \in DOMAIN current[t] :
        current[t][j].ordinal = previous[t][i].ordinal <=> key(current[t][j]) = key(previous[t][i])
  BY <1>2, OrdinalsAreKeys
<1>4. \A k : k \in CurrentKeys(t) <=> \E j \in DOMAIN current[t] : k = key(current[t][j])
  BY <1>2, EntriesOfList DEF CurrentKeys
<1> QED BY <1>3, <1>4 DEF IsGone, HasOrdinal

LEMMA FinishRecords ==
  ASSUME EngineInv, FinishPopulating, NEW t \in KeyedTypes,
         Once(current[t]), Recording(previous[t], current[t], delta[t])
  PROVE  Once(current'[t]) /\ Recorded(previous[t], current'[t], delta'[t])
<1> DEFINE old == previous[t]
           new == current[t]
           moved == current'[t]
           changes == delta[t]
           all == delta'[t]
<1>1. /\ PerformResharding \/ UNCHANGED <<current, shardCounts>>
      /\ CalculateDeletes
  BY DEF FinishPopulating
<1>2. /\ DOMAIN moved = DOMAIN new
      /\ \A i \in DOMAIN new : moved[i].value = new[i].value /\ moved[i].ordinal = new[i].ordinal
  <2>1. t \in Types
    BY DEF Types
  <2> QED BY <1>1, <2>1, ReshardingMoves
<1>3. /\ \A k \in DOMAIN all :
           \/ \E i \in DOMAIN changes : all[k] = changes[i]
           \/ \E i \in DOMAIN old : IsGone(t, i) /\ all[k] = DeltaDelete(old[i].ordinal)
      /\ \A i \in DOMAIN changes : \E k \in DOMAIN all : all[k].ordinal = changes[i].ordinal
      /\ \A i \in DOMAIN old : IsGone(t, i) => \E k \in DOMAIN all : all[k].ordinal = old[i].ordinal
      /\ \A j, k \in DOMAIN all : all[j].ordinal = all[k].ordinal => j = k
  BY <1>1, DeltaIsMerged
<1>4. \A i \in DOMAIN old : IsGone(t, i) <=> ~HasOrdinal(new, old[i].ordinal)
  BY GoneIsAbsent
<1>5. Once(new) /\ \A k \in DOMAIN changes : Brings(changes[k], old, new)
  BY DEF Recording
<1>6. AllTold(old, new, changes)
  BY DEF Recording
<1> HIDE DEF old, new, moved, changes, all
<1>7. /\ \A o : HasOrdinal(moved, o) <=> HasOrdinal(new, o)
      /\ \A o, v : Holds(moved, o, v) <=> Holds(new, o, v)
  BY <1>2 DEF HasOrdinal, Holds
<1>8. Once(moved)
  BY <1>2, <1>5 DEF Once
<1>9. ASSUME NEW k \in DOMAIN all PROVE Brings(all[k], old, moved) \/ TakesAway(all[k], old, moved)
  <2>1. CASE \E i \in DOMAIN changes : all[k] = changes[i]
    <3>1. PICK i \in DOMAIN changes : all[k] = changes[i]
      BY <2>1
    <3>2. Brings(all[k], old, new)
      BY <1>5, <3>1
    <3> QED BY <1>7, <3>2 DEF Brings
  <2>2. CASE \E i \in DOMAIN old : IsGone(t, i) /\ all[k] = DeltaDelete(old[i].ordinal)
    <3>1. PICK i \in DOMAIN old : IsGone(t, i) /\ all[k] = DeltaDelete(old[i].ordinal)
      BY <2>2
    <3>2. all[k].op = "delete" /\ all[k].ordinal = old[i].ordinal
      BY <3>1 DEF DeltaDelete
    <3>3. HasOrdinal(old, old[i].ordinal)
      BY DEF HasOrdinal
    <3>4. ~HasOrdinal(moved, old[i].ordinal)
      BY <1>4, <1>7, <3>1
    <3> QED BY <3>2, <3>3, <3>4 DEF TakesAway
  <2> QED BY <1>3, <2>1, <2>2
<1>10. \A o : HasOrdinal(changes, o) => HasOrdinal(all, o)
  BY <1>3 DEF HasOrdinal
<1>11. AllTold(old, moved, all)
  BY <1>2, <1>6, <1>10 DEF AllTold
<1>12. ASSUME NEW i \in DOMAIN old
       PROVE  HasOrdinal(moved, old[i].ordinal) \/ HasOrdinal(all, old[i].ordinal)
  <2>1. CASE IsGone(t, i)
    BY <1>3, <2>1 DEF HasOrdinal
  <2>2. CASE ~IsGone(t, i)
    BY <1>4, <1>7, <2>2
  <2> QED BY <2>1, <2>2
<1>13. Once(all)
  BY <1>3 DEF Once
<1>14. Recorded(old, moved, all)
  BY <1>9, <1>11, <1>12, <1>13 DEF Recorded
<1> QED BY <1>8, <1>14 DEF old, moved, all

(* A list holds at most as many keys as records. *)
LEMMA KeysAreFew ==
  ASSUME EngineInv, NEW t \in Types
  PROVE  Cardinality(CurrentKeys(t)) \in Nat /\ Cardinality(CurrentKeys(t)) <= Len(current[t])
<1> DEFINE list == current[t]
           key == [i \in DOMAIN list |-> ExtractPrimaryKey(t, list[i].value)]
<1>1. list \in Seq(Entries(t))
  BY DEF EngineInv, EngineTypes
<1>2. DOMAIN list = 1..Len(list) /\ Len(list) \in Nat
  BY <1>1
<1>3. \A k : k \in CurrentKeys(t) <=> \E i \in DOMAIN list : k = ExtractPrimaryKey(t, list[i].value)
  BY <1>1, EntriesOfList DEF CurrentKeys
<1> HIDE DEF list
<1>4. key \in Surjection(DOMAIN list, CurrentKeys(t))
  BY <1>3 DEF Surjection
<1>5. IsFiniteSet(1..Len(list)) /\ Cardinality(1..Len(list)) = Len(list)
  <2> DEFINE n == Len(list)
  <2>1. n \in Nat
    BY <1>2
  <2> HIDE DEF n
  <2>2. IsFiniteSet(1..n) /\ Cardinality(1..n) = n
    BY <2>1, FS_Interval
  <2> QED BY <2>2 DEF n
<1>6. IsFiniteSet(DOMAIN list) /\ Cardinality(DOMAIN list) = Len(list)
  BY <1>2, <1>5, Zenon
<1> HIDE DEF key
<1>7. IsFiniteSet(CurrentKeys(t)) /\ Cardinality(CurrentKeys(t)) <= Cardinality(DOMAIN list)
  BY <1>4, <1>6, FS_Surjection
<1>8. Cardinality(CurrentKeys(t)) \in Nat
  BY <1>7, FS_CardinalityType
<1> QED BY <1>6, <1>7, <1>8 DEF list

(* Without repetitions the key of a new record is new. *)
LEMMA NewKeyIsNew ==
  ASSUME EngineInv, NEW t \in KeyedTypes, NEW r \in Records[t], Add(t, r), ~Repeats'
  PROVE  ExtractPrimaryKey(t, r) \notin CurrentKeys(t)
<1> DEFINE key == ExtractPrimaryKey(t, r)
           e == RecordInfo(r, GetOrCreateOrdinal(t, key), ShardOf(key, shardCounts[t]))
<1>1. SUFFICES ASSUME key \in CurrentKeys(t) PROVE FALSE
  OBVIOUS
<1>2. t \in Types /\ current[t] \in Seq(Entries(t))
  BY DEF EngineInv, EngineTypes, Types
<1>3. current'[t] = Append(current[t], e) /\ e \in Entries(t)
  BY AddHasEffect
<1>4. e.value = r
  BY DEF RecordInfo
<1> HIDE DEF e
<1>5. Len(current'[t]) = Len(current[t]) + 1 /\ ToSet(current'[t]) = ToSet(current[t]) \cup {e}
  <2>1. /\ Len(Append(current[t], e)) = Len(current[t]) + 1
        /\ DOMAIN Append(current[t], e) = 1..(Len(current[t]) + 1)
        /\ DOMAIN current[t] = 1..Len(current[t]) /\ Len(current[t]) \in Nat
        /\ \A i \in DOMAIN current[t] : Append(current[t], e)[i] = current[t][i]
        /\ Append(current[t], e)[Len(current[t]) + 1] = e
    BY <1>2, <1>3, GrownList
  <2> DEFINE long == Append(current[t], e)
             n == Len(current[t])
  <2> HIDE DEF long
  <2>2. \A x \in ToSet(long) : x \in ToSet(current[t]) \cup {e}
    BY <2>1 DEF ToSet, long
  <2>3. \A x \in ToSet(current[t]) \cup {e} : x \in ToSet(long)
    <3>1. DOMAIN current[t] \subseteq DOMAIN long /\ (n + 1) \in DOMAIN long
      BY <2>1 DEF long
    <3>2. long[n + 1] = e /\ \A i \in DOMAIN current[t] : long[i] = current[t][i]
      BY <2>1 DEF long
    <3> HIDE DEF n
    <3> QED BY <3>1, <3>2 DEF ToSet
  <2> QED BY <1>3, <2>1, <2>2, <2>3 DEF long
<1>6. CurrentKeys(t)' = CurrentKeys(t)
  <2>1. CurrentKeys(t)' = {ExtractPrimaryKey(t, x.value) : x \in ToSet(current[t]) \cup {e}}
    BY <1>5 DEF CurrentKeys
  <2>2. CurrentKeys(t) = {ExtractPrimaryKey(t, x.value) : x \in ToSet(current[t])}
    BY DEF CurrentKeys
  <2>3. ExtractPrimaryKey(t, e.value) \in CurrentKeys(t)
    BY <1>1, <1>4
  <2> QED BY <2>1, <2>2, <2>3
<1>7. /\ Len(current[t]) \in Nat
      /\ Cardinality(CurrentKeys(t)) \in Nat /\ Cardinality(CurrentKeys(t)) <= Len(current[t])
  BY <1>2, KeysAreFew
<1>8. Cardinality(CurrentKeys(t)) < Len(current[t]) + 1
  BY <1>7
<1>9. Repeats'
  BY <1>5, <1>6, <1>8 DEF Repeats
<1> QED BY <1>9

(* What Add records of a new key's record is what the previous state did   *)
(* not have.                                                               *)
LEMMA AddIsRecorded ==
  ASSUME EngineInv, NEW t \in KeyedTypes, NEW r \in Records[t], Once(previous[t]),
         NEW o, o = GetOrCreateOrdinal(t, ExtractPrimaryKey(t, r)),
         ExtractPrimaryKey(t, r) \notin DOMAIN identity[t] =>
           \A k \in DOMAIN identity[t] : identity[t][k] # o
  PROVE  DeltaOfAdd(t, r) = <<>> <=> Holds(previous[t], o, r)
<1> DEFINE old == previous[t]
           key == ExtractPrimaryKey(t, r)
           same == WithOrdinal(old, o)
<1>1. /\ t \in Types /\ old \in Seq(Entries(t))
      /\ \A i \in DOMAIN old : Named(identity[t], t, old[i])
  BY DEF EngineInv, EngineTypes, EngineNames, Types
<1>2. /\ same \subseteq Nat
      /\ \A i \in same : i \in DOMAIN old /\ old[i].ordinal = o
      /\ \A i \in DOMAIN old : old[i].ordinal = o => i \in same
  <2>1. DOMAIN old \subseteq Nat
    BY <1>1
  <2> QED BY <2>1 DEF WithOrdinal
<1>3. HasValueChanged(t, o, r) = (same = {} \/ old[Min(same)].value # r)
  BY DEF HasValueChanged
<1>4. Once(old)
  OBVIOUS
<1>5. /\ key \notin DOMAIN identity[t] => DeltaOfAdd(t, r) # <<>>
      /\ key \in DOMAIN identity[t] => (DeltaOfAdd(t, r) = <<>> <=> ~HasValueChanged(t, o, r))
  BY DEF DeltaOfAdd
<1> HIDE DEF same, old
<1>6. ASSUME Holds(old, o, r) PROVE DeltaOfAdd(t, r) = <<>>
  <2>1. PICK i \in DOMAIN old : old[i].ordinal = o /\ old[i].value = r
    BY <1>6 DEF Holds
  <2>2. key \in DOMAIN identity[t]
    BY <1>1, <2>1 DEF Named
  <2>3. Min(same) \in same /\ i \in same
    BY <1>2, <2>1, MinIs
  <2>4. Min(same) = i
    BY <1>2, <1>4, <2>3 DEF Once
  <2>5. ~HasValueChanged(t, o, r)
    BY <1>3, <2>1, <2>3, <2>4
  <2> QED BY <1>5, <2>2, <2>5
<1>7. ASSUME DeltaOfAdd(t, r) = <<>> PROVE Holds(old, o, r)
  <2>1. same # {} /\ old[Min(same)].value = r
    BY <1>3, <1>5, <1>7
  <2>2. Min(same) \in same
    BY <1>2, <2>1, MinIs
  <2> QED BY <1>2, <2>1, <2>2 DEF Holds
<1> QED BY <1>6, <1>7 DEF old

LEMMA AddRecords ==
  ASSUME EngineInv, NEW t \in KeyedTypes, NEW r \in Records[t], Add(t, r), ~Repeats',
         Once(previous[t]), Once(current[t]), Recording(previous[t], current[t], delta[t])
  PROVE  Once(current'[t]) /\ Recording(previous[t], current'[t], delta'[t])
<1> DEFINE old == previous[t]
           new == current[t]
           changes == delta[t]
           longer == current'[t]
           more == delta'[t]
           key == ExtractPrimaryKey(t, r)
           o == GetOrCreateOrdinal(t, key)
           e == RecordInfo(r, o, ShardOf(key, shardCounts[t]))
           added == DeltaOfAdd(t, r)
           f == identity'[t]
<1>1. t \in Types /\ new \in Seq(Entries(t)) /\ changes \in Seq(ChangesOf(Records[t]))
  BY DEF EngineInv, EngineTypes, Types
<1>2. /\ IsNaming(f)
      /\ key \in DOMAIN f /\ f[key] = o
      /\ \A k \in DOMAIN identity[t] : k \in DOMAIN f /\ f[k] = identity[t][k]
      /\ o \in Nat
      /\ key \notin DOMAIN identity[t] => \A k \in DOMAIN identity[t] : identity[t][k] # o
      /\ e \in Entries(t)
      /\ longer = Append(new, e)
      /\ more = changes \o added
      /\ added = <<>> \/ added = <<DeltaAdd(o, r)>> \/ added = <<DeltaUpdate(o, r)>>
  BY AddHasEffect
<1>3. added = <<>> <=> Holds(old, o, r)
  BY <1>2, AddIsRecorded
<1>4. e.value = r /\ e.ordinal = o
  BY DEF RecordInfo
<1>5. \A j \in DOMAIN new : Named(f, t, new[j])
  <2>1. \A j \in DOMAIN new : Named(identity[t], t, new[j])
    BY DEF EngineInv, EngineNames
  <2> HIDE DEF f, new
  <2> QED BY <1>2, <2>1 DEF Named
<1>6. Named(f, t, e)
  BY <1>2, <1>4 DEF Named
<1>7. \A j \in DOMAIN new : ExtractPrimaryKey(t, new[j].value) # key
  <2>1. key \notin CurrentKeys(t)
    BY NewKeyIsNew
  <2>2. \A j \in DOMAIN new : ExtractPrimaryKey(t, new[j].value) \in CurrentKeys(t)
    BY <1>1, EntriesOfList DEF CurrentKeys
  <2> HIDE DEF key, new
  <2> QED BY <2>1, <2>2
<1>8. ASSUME NEW j \in DOMAIN new PROVE new[j].ordinal # o
  <2>1. Named(f, t, new[j]) /\ Named(f, t, e)
    BY <1>5, <1>6
  <2>2. new[j].ordinal = e.ordinal <=>
          ExtractPrimaryKey(t, new[j].value) = ExtractPrimaryKey(t, e.value)
    <3> HIDE DEF f, e, new
    <3> QED BY <1>2, <2>1, OrdinalsAreKeys
  <2> QED BY <1>4, <1>7, <2>2
<1>9. PICK d : /\ d \in ChangesOf(Records[t]) /\ d.op # "delete" /\ d.ordinal = o /\ d.value = r
               /\ added = <<>> \/ added = <<d>>
  <2>1. CASE added = <<DeltaAdd(o, r)>>
    <3>1. /\ DeltaAdd(o, r) \in ChangesOf(Records[t]) /\ DeltaAdd(o, r).op # "delete"
          /\ DeltaAdd(o, r).ordinal = o /\ DeltaAdd(o, r).value = r
      <4> HIDE DEF o
      <4> QED BY <1>2 DEF DeltaAdd, ChangesOf, Updates
    <3> QED BY <2>1, <3>1
  <2>2. CASE added = <<DeltaUpdate(o, r)>> \/ added = <<>>
    <3>1. /\ DeltaUpdate(o, r) \in ChangesOf(Records[t]) /\ DeltaUpdate(o, r).op # "delete"
          /\ DeltaUpdate(o, r).ordinal = o /\ DeltaUpdate(o, r).value = r
      <4> HIDE DEF o
      <4> QED BY <1>2 DEF DeltaUpdate, ChangesOf, Updates
    <3> QED BY <2>2, <3>1
  <2> QED BY <1>2, <2>1, <2>2
<1>10. /\ \A k \in DOMAIN changes : Brings(changes[k], old, new)
       /\ AllTold(old, new, changes) /\ Once(new)
  BY DEF Recording
<1> HIDE DEF old, new, changes, longer, more, key, o, e, added, f
<1>11. /\ DOMAIN longer = 1..(Len(new) + 1) /\ DOMAIN new = 1..Len(new) /\ Len(new) \in Nat
       /\ \A j \in DOMAIN new : j \in DOMAIN longer /\ longer[j] = new[j]
       /\ longer[Len(new) + 1] = e
       /\ \A j \in DOMAIN longer :
            \/ j \in DOMAIN new /\ longer[j] = new[j]
            \/ longer[j] = e
  <2>1. /\ DOMAIN Append(new, e) = 1..(Len(new) + 1)
        /\ DOMAIN new = 1..Len(new) /\ Len(new) \in Nat
        /\ \A i \in DOMAIN new : Append(new, e)[i] = new[i]
        /\ Append(new, e)[Len(new) + 1] = e
    BY <1>1, <1>2, GrownList
  <2> QED BY <1>2, <2>1
<1>12. /\ \A k \in DOMAIN changes : k \in DOMAIN more /\ more[k] = changes[k]
       /\ \A k \in DOMAIN more :
            \/ k \in DOMAIN changes /\ more[k] = changes[k]
            \/ added # <<>> /\ more[k] = d
       /\ added # <<>> => \E k \in DOMAIN more : more[k] = d
  <2>1. /\ DOMAIN Append(changes, d) = 1..(Len(changes) + 1)
        /\ DOMAIN changes = 1..Len(changes) /\ Len(changes) \in Nat
        /\ \A i \in DOMAIN changes : Append(changes, d)[i] = changes[i]
        /\ Append(changes, d)[Len(changes) + 1] = d
        /\ changes \o <<d>> = Append(changes, d)
        /\ changes \o <<>> = changes
    BY <1>1, <1>9, GrownList
  <2>2. CASE added = <<>>
    <3>1. more = changes
      BY <1>2, <2>1, <2>2, Zenon
    <3> QED BY <2>2, <3>1
  <2>3. CASE added = <<d>>
    <3>1. more = Append(changes, d)
      BY <1>2, <2>1, <2>3, Zenon
    <3>2. added # <<>>
      BY <2>3
    <3>3. Len(changes) + 1 \in DOMAIN more /\ more[Len(changes) + 1] = d
      BY <2>1, <3>1
    <3> QED BY <2>1, <3>1, <3>2, <3>3
  <2> QED BY <1>9, <2>2, <2>3
<1>13. Once(longer)
  <2>1. SUFFICES ASSUME NEW i \in DOMAIN longer, NEW j \in DOMAIN longer,
                        longer[i].ordinal = longer[j].ordinal
                 PROVE  i = j
    BY DEF Once
  <2>2. \A x, y \in DOMAIN new : new[x].ordinal = new[y].ordinal => x = y
    BY <1>10 DEF Once
  <2> QED BY <1>4, <1>8, <1>11, <2>1, <2>2
<1>14. /\ \A n, v : Holds(new, n, v) => Holds(longer, n, v)
       /\ Holds(longer, o, r)
  <2>1. Holds(longer, o, r)
    <3>1. Len(new) + 1 \in DOMAIN longer
      BY <1>11
    <3> QED BY <1>4, <1>11, <3>1 DEF Holds
  <2> QED BY <1>11, <2>1 DEF Holds
<1>15. ASSUME NEW k \in DOMAIN more PROVE Brings(more[k], old, longer)
  <2>1. CASE k \in DOMAIN changes /\ more[k] = changes[k]
    <3>1. Brings(changes[k], old, new)
      BY <1>10, <2>1
    <3> QED BY <1>14, <2>1, <3>1 DEF Brings
  <2>2. CASE added # <<>> /\ more[k] = d
    BY <1>3, <1>9, <1>14, <2>2 DEF Brings
  <2> QED BY <1>12, <2>1, <2>2
<1>16. ASSUME NEW j \in DOMAIN longer
       PROVE  HasOrdinal(more, longer[j].ordinal) \/ Holds(old, longer[j].ordinal, longer[j].value)
  <2>1. CASE j \in DOMAIN new /\ longer[j] = new[j]
    <3>1. HasOrdinal(changes, new[j].ordinal) \/ Holds(old, new[j].ordinal, new[j].value)
      BY <1>10, <2>1 DEF AllTold
    <3>2. HasOrdinal(changes, new[j].ordinal) => HasOrdinal(more, new[j].ordinal)
      BY <1>12 DEF HasOrdinal
    <3> QED BY <2>1, <3>1, <3>2
  <2>2. CASE longer[j] = e
    <3>1. CASE added = <<>>
      BY <1>3, <1>4, <2>2, <3>1
    <3>2. CASE added # <<>>
      <4>1. HasOrdinal(more, o)
        BY <1>9, <1>12, <3>2 DEF HasOrdinal
      <4> QED BY <1>4, <2>2, <4>1
    <3> QED BY <3>1, <3>2
  <2> QED BY <1>11, <2>1, <2>2
<1>17. Recording(old, longer, more)
  BY <1>15, <1>16 DEF Recording, AllTold
<1> QED BY <1>13, <1>17 DEF old, longer, more

LEMMA OnceStep ==
  EngineInv /\ (KeysOnce => OnceInv) /\ [Next]_vars => (KeysOnce' => OnceInv')
<1> SUFFICES ASSUME EngineInv, KeysOnce => OnceInv, [Next]_vars, KeysOnce' PROVE OnceInv'
  OBVIOUS
<1>1. setting' = setting
  BY DEF Next, vars, StartCycle, Populate, EmptyCycle, IdenticalCycle, FinishPopulating, Reject,
         PublishSnapshot, PublishDelta
<1>2. KeysOnce /\ OnceInv
  BY <1>1 DEF KeysOnce
<1>3. \A t \in KeyedTypes : t \in Types
  BY DEF Types
<1>4. CASE StartCycle \/ Reject
  <2>1. /\ previous' = current /\ current' = NoRecords /\ delta' = NoRecords
        /\ phase' # "ready"
    BY <1>4 DEF StartCycle, Reject, PrepareForCycle
  <2>2. ASSUME NEW t \in KeyedTypes
        PROVE  Once(current[t]) /\ Once(NoRecords[t]) /\ Recording(current[t], NoRecords[t], NoRecords[t])
    <3>1. NoRecords[t] = <<>>
      BY <1>3 DEF NoRecords
    <3>2. Once(<<>>) /\ Recording(current[t], <<>>, <<>>)
      BY DEF Once, Recording, AllTold
    <3>3. Once(current[t])
      BY <1>2 DEF OnceInv
    <3> QED BY <3>1, <3>2, <3>3
  <2> QED BY <2>1, <2>2 DEF OnceInv
<1>5. CASE Populate
  <2>1. PICK t \in Types : \E r \in setting.offered[t] : Add(t, r)
    BY <1>5 DEF Populate
  <2>2. PICK r \in setting.offered[t] : Add(t, r)
    BY <2>1
  <2>3. r \in Records[t]
    <3>1. setting \in Settings
      BY DEF EngineInv, EngineTypes
    <3> QED BY <3>1, PipelineAssumption
  <2>4. ~Repeats'
    BY <1>1, <1>2, <1>5 DEF Populate, KeysOnce
  <2>5. phase = "populating" /\ phase' = phase /\ previous' = previous
    BY <2>2 DEF Add
  <2>6. \A u \in KeyedTypes : Once(previous[u]) /\ Once(current[u])
                              /\ Recording(previous[u], current[u], delta[u])
    BY <1>2, <2>5 DEF OnceInv
  <2>7. CASE t \in KeyedTypes
    <3>1. Once(current'[t]) /\ Recording(previous[t], current'[t], delta'[t])
      BY <2>2, <2>3, <2>4, <2>6, <2>7, AddRecords
    <3>2. \A u \in Types : u # t => current'[u] = current[u] /\ delta'[u] = delta[u]
      BY <2>2, <2>3, <2>7, AddHasEffect
    <3>3. \A u \in KeyedTypes : Once(current'[u]) /\ Recording(previous[u], current'[u], delta'[u])
      BY <1>3, <2>6, <3>1, <3>2
    <3> QED BY <2>5, <2>6, <3>3 DEF OnceInv
  <2>8. CASE t \notin KeyedTypes
    <3>1. current' = [current EXCEPT ![t] = Append(@, Bare(r))] /\ delta' = delta
      BY <2>2, <2>8 DEF Add, AddTraditional
    <3>2. DOMAIN current = Types
      BY DEF EngineInv, EngineTypes
    <3>3. \A u \in KeyedTypes : current'[u] = current[u]
      BY <1>3, <2>8, <3>1, <3>2
    <3> QED BY <2>5, <2>6, <3>1, <3>3 DEF OnceInv
  <2> QED BY <2>7, <2>8
<1>6. CASE FinishPopulating
  <2>1. phase = "populating" /\ phase' = "ready" /\ previous' = previous
    BY <1>6 DEF FinishPopulating
  <2>2. \A t \in KeyedTypes : /\ Once(previous[t]) /\ Once(current[t])
                              /\ Recording(previous[t], current[t], delta[t])
    BY <1>2, <2>1 DEF OnceInv
  <2>3. \A t \in KeyedTypes : Once(current'[t]) /\ Recorded(previous[t], current'[t], delta'[t])
    BY <1>6, <2>2, FinishRecords
  <2> QED BY <2>1, <2>2, <2>3 DEF OnceInv
<1>7. CASE EmptyCycle \/ IdenticalCycle \/ PublishSnapshot \/ PublishDelta
  <2>1. UNCHANGED <<previous, current, delta>> /\ phase' = "idle"
    BY <1>7 DEF EmptyCycle, IdenticalCycle, PublishSnapshot, PublishDelta
  <2> QED BY <1>2, <2>1 DEF OnceInv
<1>8. CASE UNCHANGED vars
  BY <1>2, <1>8 DEF OnceInv, vars, engineVars
<1> QED BY <1>4, <1>5, <1>6, <1>7, <1>8 DEF Next

LEMMA OnceInvariant == Spec => [](EngineInv /\ (KeysOnce => OnceInv))
<1>1. ASSUME Init PROVE OnceInv
  <2>1. phase = "idle" /\ \A t \in Types : previous[t] = <<>> /\ current[t] = <<>>
    BY <1>1 DEF Init, EngineInit, NoRecords
  <2>2. Once(<<>>)
    BY DEF Once
  <2> QED BY <2>1, <2>2 DEF OnceInv, Types
<1> QED BY <1>1, EngineStarts, EngineStep, OnceStep, PTL DEF Spec

(***************************************************************************)
(* As long as no callback adds a key twice in a cycle, the previous state  *)
(* of a keyed type overlaid with the delta is the current state            *)
(* (state.go, AddWithPrimaryKey and CalculateDeletes; delta.go,            *)
(* OptimizeDeltas), whatever else a cycle does.                            *)
(***************************************************************************)
THEOREM KeyedDeltaStaysComplete == Spec => [](KeysOnce => KeyedDeltaComplete)
<1>1. ASSUME EngineInv, OnceInv PROVE KeyedDeltaComplete
  BY <1>1, RecordedIsComplete DEF KeyedDeltaComplete, OnceInv
<1> QED BY <1>1, OnceInvariant, PTL

(***************************************************************************)
(* And the delta holds nothing but changes, one record for each of them.   *)
(***************************************************************************)
THEOREM DeltaStaysMinimal == Spec => [](KeysOnce => DeltaMinimal)
<1>1. ASSUME EngineInv, OnceInv PROVE DeltaMinimal
  BY <1>1, RecordedIsMinimal DEF DeltaMinimal, OnceInv, Recorded, Once
<1> QED BY <1>1, OnceInvariant, PTL

(***************************************************************************)
(* What the consumer holds                                                 *)
(***************************************************************************)

(* The state that was published last. *)
Base == IF phase = "idle" THEN current ELSE previous

(* A keyed record is where its ordinal says. *)
InPlace(list) == \A i \in DOMAIN list : list[i].ordinal = i - 1

(* Nothing but snapshots, or cycles without any of the shapes and without  *)
(* records of a type whose key cannot be extracted.                        *)
SnapshotsOnly == setting.NumStatesBetweenSnapshots = 1
CyclesAreTame == setting.shapes = {} /\ \A t \in MisnamedTypes : setting.offered[t] = {}
Tame == SnapshotsOnly \/ CyclesAreTame

Readable ==
  /\ ~stuck
  /\ DOMAIN mirror = Types
  /\ \A t \in Types :
       /\ mirror[t] \in Seq([value : Records[t], wrapped : BOOLEAN])
       /\ ValuesOf(mirror[t]) = IF ShouldInclude(t) THEN published[t] ELSE <<>>

(* Ordinals are handed out as far as the longer one of the two states. *)
Numbered(t) ==
  LET named == Cardinality(DOMAIN identity[t]) IN
  /\ InPlace(Base[t])
  /\ phase = "idle" => named = Len(current[t])
  /\ phase = "populating" =>
       /\ InPlace(current[t])
       /\ Len(previous[t]) <= named /\ Len(current[t]) <= named
       /\ named = Len(previous[t]) \/ named = Len(current[t])
       /\ \A k \in DOMAIN delta[t] :
            delta[t][k].op = IF delta[t][k].ordinal < Len(previous[t]) THEN "update" ELSE "add"
  /\ phase = "ready" => InPlace(current[t]) /\ named = Len(current[t])

FollowInv ==
  /\ published = Values(Base)
  /\ \A t \in KeyedTypes : Numbered(t)
  /\ \A t \in MisnamedTypes : previous[t] = <<>> /\ current[t] = <<>>
  /\ phase = "ready" =>
       /\ distance = 0 \/ published # Values(current)
       /\ \A t \in Types : Edits(ValuesOf(previous[t]), ValuesOf(current[t]), delta[t])

(* What one record does to the numbers of its type. *)
LEMMA NumbersGrow ==
  ASSUME EngineInv, NEW t \in KeyedTypes, NEW r \in Records[t], Add(t, r),
         NEW key, key = ExtractPrimaryKey(t, r),
         NEW o, o = GetOrCreateOrdinal(t, key),
         NEW named, named = Cardinality(DOMAIN identity[t])
  PROVE  /\ named \in Nat /\ o \in Nat
         /\ \/ /\ Cardinality(DOMAIN identity'[t]) = named /\ o < named
               /\ DeltaOfAdd(t, r) = <<>> \/ DeltaOfAdd(t, r) = <<DeltaUpdate(o, r)>>
            \/ /\ Cardinality(DOMAIN identity'[t]) = named + 1 /\ o = named
               /\ DeltaOfAdd(t, r) = <<DeltaAdd(o, r)>>
<1> DEFINE D == DOMAIN identity[t]
<1>1. IsNaming(identity[t])
  BY DEF EngineInv, EngineNames
<1>2. IsFiniteSet(D) /\ named \in Nat /\ identity[t] \in [D -> 0..(named - 1)]
  BY <1>1, FS_CardinalityType DEF IsNaming
<1>3. identity'[t] = WithKey(identity[t], key, o)
  <2>1. AddWithPrimaryKey(t, r) /\ DOMAIN identity = KeyedTypes
    BY DEF Add, EngineInv, EngineNames
  <2> QED BY <2>1 DEF AddWithPrimaryKey
<1>4. DOMAIN identity'[t] = D \cup {key}
  BY <1>3 DEF WithKey
<1>5. CASE key \in D
  <2>1. D \cup {key} = D /\ o = identity[t][key]
    BY <1>5 DEF GetOrCreateOrdinal
  <2>2. o \in 0..(named - 1)
    BY <1>2, <1>5, <2>1
  <2>3. o \in Nat /\ o < named
    BY <1>2, <2>2
  <2>4. DeltaOfAdd(t, r) = <<>> \/ DeltaOfAdd(t, r) = <<DeltaUpdate(o, r)>>
    BY <1>5 DEF DeltaOfAdd
  <2> QED BY <1>2, <1>4, <2>1, <2>3, <2>4
<1>6. CASE key \notin D
  <2>1. o = named
    BY <1>6 DEF GetOrCreateOrdinal
  <2>2. Cardinality(D \cup {key}) = named + 1
    <3> HIDE DEF D
    <3>1. named = Cardinality(D)
      BY DEF D
    <3> QED BY <1>2, <1>6, <3>1, FS_AddElement
  <2>3. DeltaOfAdd(t, r) = <<DeltaAdd(o, r)>>
    BY <1>6 DEF DeltaOfAdd
  <2> QED BY <1>2, <1>4, <2>1, <2>2, <2>3
<1> QED BY <1>5, <1>6

(* A callback that leaves nothing out and keeps the order adds every       *)
(* record where its ordinal says.                                          *)
LEMMA AddComesNext ==
  ASSUME EngineInv, EngineInv', NEW t \in KeyedTypes, NEW r \in Records[t], Add(t, r),
         Once(current'[t]), Numbered(t), MayStillComplete', "reorder" \notin setting'.shapes
  PROVE  GetOrCreateOrdinal(t, ExtractPrimaryKey(t, r)) = Len(current[t])
<1> DEFINE key == ExtractPrimaryKey(t, r)
           o == GetOrCreateOrdinal(t, key)
           e == RecordInfo(r, o, ShardOf(key, shardCounts[t]))
           new == current[t]
           old == previous[t]
<1>1. /\ t \in Types /\ new \in Seq(Entries(t)) /\ old \in Seq(Entries(t))
  BY DEF EngineInv, EngineTypes, Types
<1>2. PICK n, p, named : n = Len(new) /\ p = Len(old) /\ named = Cardinality(DOMAIN identity[t])
  OBVIOUS
<1>3. /\ e \in Entries(t) /\ current'[t] = Append(new, e) /\ previous' = previous
      /\ phase = "populating" /\ e.ordinal = o
  BY AddHasEffect DEF Add, RecordInfo
<1>4. o \in Nat /\ named \in Nat /\ (o < named \/ o = named)
  BY <1>2, NumbersGrow
<1>5. /\ InPlace(old) /\ InPlace(new)
      /\ p <= named /\ n <= named /\ (named = p \/ named = n)
  BY <1>2, <1>3 DEF Numbered, Base
<1>6. /\ n \in Nat /\ DOMAIN new = 1..n /\ p \in Nat /\ DOMAIN old = 1..p
      /\ DOMAIN current'[t] = 1..(n + 1)
      /\ \A i \in 1..n : current'[t][i] = new[i]
      /\ current'[t][n + 1] = e
  <2> HIDE DEF e, new, old
  <2> QED BY <1>1, <1>2, <1>3, GrownList
<1>7. /\ \A i \in 1..n : new[i].ordinal = i - 1
      /\ \A i \in 1..p : old[i].ordinal = i - 1
  BY <1>5, <1>6 DEF InPlace
<1> HIDE DEF e, new, o
<1>8. ~(o < n)
  <2>1. SUFFICES ASSUME o < n PROVE FALSE
    OBVIOUS
  <2>2. o + 1 \in 1..n /\ o + 1 \in 1..(n + 1) /\ n + 1 \in 1..(n + 1) /\ o + 1 # n + 1
    BY <1>4, <1>6, <2>1
  <2>3. current'[t][o + 1].ordinal = o /\ current'[t][n + 1].ordinal = o
    <3>1. (o + 1) - 1 = o
      BY <1>4
    <3> QED BY <1>3, <1>6, <1>7, <2>2, <3>1
  <2> QED BY <1>6, <2>2, <2>3 DEF Once
<1>9. ~(n < o)
  <2>1. SUFFICES ASSUME n < o PROVE FALSE
    OBVIOUS
  <2>2. n + 1 \in 1..p
    BY <1>4, <1>5, <1>6, <2>1
  <2> DEFINE m == old[n + 1]
  <2>3. m.ordinal = n /\ m \in ToSet(old)
    <3>1. (n + 1) - 1 = n
      BY <1>6
    <3>2. m \in ToSet(old)
      BY <1>1, <1>6, <2>2, EntriesOfList
    <3> QED BY <1>7, <2>2, <3>1, <3>2
  <2>4. ExtractPrimaryKey(t, m.value) \notin CurrentKeys(t)'
    <3>1. SUFFICES ASSUME ExtractPrimaryKey(t, m.value) \in CurrentKeys(t)' PROVE FALSE
      OBVIOUS
    <3>2. current'[t] \in Seq(Entries(t))
      BY <1>1 DEF EngineInv, EngineTypes, Entries
    <3>3. PICK j \in DOMAIN current'[t] :
            ExtractPrimaryKey(t, m.value) = ExtractPrimaryKey(t, current'[t][j].value)
      <4>1. CurrentKeys(t)' = {ExtractPrimaryKey(t, x.value) : x \in ToSet(current'[t])}
        BY DEF CurrentKeys
      <4>2. \A x \in ToSet(current'[t]) : \E j \in DOMAIN current'[t] : x = current'[t][j]
        BY <3>2, EntriesOfList
      <4> QED BY <3>1, <4>1, <4>2
    <3>4. /\ IsNaming(identity'[t]) /\ Named(identity'[t], t, current'[t][j])
          /\ Named(identity'[t], t, m)
      BY <1>3, <1>6, <2>2 DEF EngineInv, EngineNames
    <3>5. current'[t][j].ordinal = n
      <4> HIDE DEF m
      <4> QED BY <2>3, <3>3, <3>4, OrdinalsAreKeys
    <3>6. j \in 1..n \/ j = n + 1
      BY <1>6
    <3>7. CASE j \in 1..n
      <4>1. n = j - 1
        BY <1>6, <1>7, <3>5, <3>7
      <4> QED BY <1>6, <3>7, <4>1
    <3>8. CASE j = n + 1
      <4>1. o = n
        BY <1>3, <1>6, <3>5, <3>8
      <4> QED BY <1>4, <2>1, <4>1
    <3> QED BY <3>6, <3>7, <3>8
  <2>5. m \in Missing(t)'
    BY <1>3, <2>3, <2>4 DEF Missing
  <2>6. e \in ToSet(current'[t])
    <3>1. n + 1 \in DOMAIN current'[t]
      BY <1>6
    <3> QED BY <1>6, <3>1 DEF ToSet
  <2>7. e.ordinal < m.ordinal
    BY <2>5, <2>6 DEF MayStillComplete
  <2> QED BY <1>3, <1>4, <1>6, <2>1, <2>3, <2>7
<1>10. o = n
  BY <1>4, <1>6, <1>8, <1>9
<1> QED BY <1>2, <1>10 DEF o, new

(* A record that is added or found again keeps the ordinals in order: the  *)
(* first mention takes the next ordinal.                                   *)
LEMMA AddKeepsNumbered ==
  ASSUME EngineInv, EngineInv', NEW t \in KeyedTypes, NEW r \in Records[t], Add(t, r),
         Once(current'[t]), Numbered(t), MayStillComplete', "reorder" \notin setting'.shapes
  PROVE  Numbered(t)'
<1> DEFINE key == ExtractPrimaryKey(t, r)
           o == GetOrCreateOrdinal(t, key)
           e == RecordInfo(r, o, ShardOf(key, shardCounts[t]))
           new == current[t]
           added == DeltaOfAdd(t, r)
<1>1. /\ t \in Types /\ new \in Seq(Entries(t)) /\ delta[t] \in Seq(ChangesOf(Records[t]))
      /\ Len(previous[t]) \in Nat
  BY DEF EngineInv, EngineTypes, Types
<1>2. PICK n, p, named :
        n = Len(new) /\ p = Len(previous[t]) /\ named = Cardinality(DOMAIN identity[t])
  OBVIOUS
<1>3. /\ e \in Entries(t) /\ current'[t] = Append(new, e) /\ delta'[t] = delta[t] \o added
      /\ previous' = previous /\ phase = "populating" /\ phase' = phase /\ e.ordinal = o
  BY AddHasEffect DEF Add, RecordInfo
<1>4. o = n
  BY <1>2, AddComesNext
<1>5. /\ named \in Nat /\ o \in Nat
      /\ \/ /\ Cardinality(DOMAIN identity'[t]) = named /\ o < named
            /\ added = <<>> \/ added = <<DeltaUpdate(o, r)>>
         \/ /\ Cardinality(DOMAIN identity'[t]) = named + 1 /\ o = named
            /\ added = <<DeltaAdd(o, r)>>
  BY <1>2, NumbersGrow
<1>6. /\ InPlace(previous[t]) /\ InPlace(new)
      /\ p <= named /\ n <= named /\ (named = p \/ named = n)
      /\ \A k \in DOMAIN delta[t] :
           delta[t][k].op = IF delta[t][k].ordinal < p THEN "update" ELSE "add"
  BY <1>2, <1>3 DEF Numbered, Base
<1>7. /\ n \in Nat /\ p \in Nat /\ DOMAIN new = 1..n
      /\ DOMAIN current'[t] = 1..(n + 1) /\ Len(current'[t]) = n + 1
      /\ \A i \in 1..n : current'[t][i] = new[i]
      /\ current'[t][n + 1] = e
  <2> HIDE DEF e, new
  <2> QED BY <1>1, <1>2, <1>3, GrownList
<1> HIDE DEF e, o, new
<1>8. InPlace(current'[t])
  <2>1. ASSUME NEW i \in 1..(n + 1) PROVE current'[t][i].ordinal = i - 1
    <3>1. i \in 1..n \/ i = n + 1
      BY <1>7
    <3>2. CASE i \in 1..n
      BY <1>6, <1>7, <3>2 DEF InPlace
    <3>3. CASE i = n + 1
      BY <1>3, <1>4, <1>7, <3>3
    <3> QED BY <3>1, <3>2, <3>3
  <2> QED BY <1>7, <2>1 DEF InPlace
<1>9. /\ p <= Cardinality(DOMAIN identity'[t]) /\ n + 1 <= Cardinality(DOMAIN identity'[t])
      /\ Cardinality(DOMAIN identity'[t]) = p \/ Cardinality(DOMAIN identity'[t]) = n + 1
  BY <1>4, <1>5, <1>6, <1>7
<1>10. \A k \in DOMAIN added : added[k].op = IF added[k].ordinal < p THEN "update" ELSE "add"
  <2>1. CASE added = <<>>
    BY <2>1
  <2>2. CASE added = <<DeltaUpdate(o, r)>> /\ o < named
    <3>1. o < p
      BY <1>4, <1>5, <1>6, <1>7, <2>2
    <3>2. DOMAIN added = {1} /\ added[1].op = "update" /\ added[1].ordinal = o
      <4>1. DeltaUpdate(o, r).op = "update" /\ DeltaUpdate(o, r).ordinal = o
        BY DEF DeltaUpdate
      <4> HIDE DEF added
      <4> QED BY <2>2, <4>1
    <3> HIDE DEF added
    <3> QED BY <3>1, <3>2
  <2>3. CASE added = <<DeltaAdd(o, r)>> /\ o = named
    <3>1. ~(o < p)
      BY <1>5, <1>6, <1>7, <2>3
    <3>2. DOMAIN added = {1} /\ added[1].op = "add" /\ added[1].ordinal = o
      <4>1. DeltaAdd(o, r).op = "add" /\ DeltaAdd(o, r).ordinal = o
        BY DEF DeltaAdd
      <4> HIDE DEF added
      <4> QED BY <2>3, <4>1
    <3> HIDE DEF added
    <3> QED BY <3>1, <3>2
  <2> HIDE DEF added
  <2> QED BY <1>5, <2>1, <2>2, <2>3
<1>11. \A k \in DOMAIN delta'[t] :
         delta'[t][k].op = IF delta'[t][k].ordinal < p THEN "update" ELSE "add"
  <2>1. added \in Seq(ChangesOf(Records[t]))
    <3>1. DeltaUpdate(o, r) \in ChangesOf(Records[t]) /\ DeltaAdd(o, r) \in ChangesOf(Records[t])
      BY <1>5 DEF DeltaUpdate, DeltaAdd, ChangesOf, Updates
    <3>2. ASSUME NEW C PROVE <<>> \in Seq(C) /\ \A x \in C : <<x>> \in Seq(C)
      OBVIOUS
    <3>3. <<>> \in Seq(ChangesOf(Records[t]))
      BY <3>2
    <3>4. /\ <<DeltaUpdate(o, r)>> \in Seq(ChangesOf(Records[t]))
          /\ <<DeltaAdd(o, r)>> \in Seq(ChangesOf(Records[t]))
      BY <3>1, <3>2, Zenon
    <3> HIDE DEF added
    <3> QED BY <1>5, <3>3, <3>4, Zenon
  <2> HIDE DEF added
  <2>2. \A k \in DOMAIN delta'[t] :
          \/ k \in DOMAIN delta[t] /\ delta'[t][k] = delta[t][k]
          \/ k - Len(delta[t]) \in DOMAIN added /\ delta'[t][k] = added[k - Len(delta[t])]
    BY <1>1, <1>3, <2>1, JoinedList
  <2> QED BY <1>6, <1>10, <2>2
<1> HIDE DEF added
<1>12. InPlace(Base[t])'
  BY <1>3, <1>6 DEF Base
<1> QED BY <1>2, <1>3, <1>7, <1>8, <1>9, <1>11, <1>12 DEF Numbered

(* The change records of a finished keyed type edit. *)
LEMMA KeyedTypesEdit ==
  ASSUME EngineInv, EngineInv', NEW t \in KeyedTypes, FinishPopulating, Numbered(t),
         Recorded(previous[t], current'[t], delta'[t]), Missing(t) = {}
  PROVE  /\ Numbered(t)'
         /\ Edits(ValuesOf(previous[t]), ValuesOf(current'[t]), delta'[t])
<1> DEFINE old == previous[t]
           new == current[t]
           moved == current'[t]
           changes == delta[t]
           all == delta'[t]
<1>1. /\ PerformResharding \/ UNCHANGED <<current, shardCounts>>
      /\ CalculateDeletes
      /\ phase = "populating" /\ phase' = "ready" /\ UNCHANGED <<previous, identity>>
  BY DEF FinishPopulating
<1>2. /\ t \in Types /\ old \in Seq(Entries(t)) /\ new \in Seq(Entries(t))
      /\ all \in Seq(ChangesOf(Records[t]))
  BY DEF EngineInv, EngineTypes, Types
<1>3. PICK n, p, named : n = Len(new) /\ p = Len(old) /\ named = Cardinality(DOMAIN identity[t])
  OBVIOUS
<1>4. /\ n \in Nat /\ DOMAIN new = 1..n /\ p \in Nat /\ DOMAIN old = 1..p
  BY <1>2, <1>3
<1>5. /\ Len(moved) = n /\ DOMAIN moved = 1..n
      /\ \A i \in 1..n : moved[i].value = new[i].value /\ moved[i].ordinal = new[i].ordinal
  BY <1>1, <1>2, <1>3, <1>4, ReshardingMoves
<1>6. /\ InPlace(old) /\ InPlace(new)
      /\ p <= named /\ n <= named /\ (named = p \/ named = n)
      /\ \A k \in DOMAIN changes :
           changes[k].op = IF changes[k].ordinal < p THEN "update" ELSE "add"
  BY <1>1, <1>3 DEF Numbered, Base
<1>7. \A i \in DOMAIN old : ~IsGone(t, i) /\ HasOrdinal(new, old[i].ordinal)
  <2>1. ASSUME NEW i \in DOMAIN old, IsGone(t, i) PROVE FALSE
    <3>1. old[i] \in ToSet(old)
      BY <1>2, EntriesOfList
    <3>2. old[i] \in Missing(t)
      BY <2>1, <3>1 DEF IsGone, Missing
    <3> QED BY <3>2
  <2> QED BY <2>1, GoneIsAbsent
<1>8. /\ \A k \in DOMAIN all : \E i \in DOMAIN changes : all[k] = changes[i]
      /\ \A j, k \in DOMAIN all : j < k => all[j].ordinal < all[k].ordinal
  <2>1. /\ \A k \in DOMAIN all :
             \/ \E i \in DOMAIN changes : all[k] = changes[i]
             \/ \E i \in DOMAIN old : IsGone(t, i) /\ all[k] = DeltaDelete(old[i].ordinal)
        /\ \A j, k \in DOMAIN all : j < k => all[j].ordinal < all[k].ordinal
    BY <1>1, DeltaIsMerged
  <2> QED BY <1>7, <2>1
<1>9. Recorded(old, moved, all)
  OBVIOUS
<1> HIDE DEF old, new, moved, changes, all
<1>10. /\ \A i \in 1..n : new[i].ordinal = i - 1 /\ moved[i].ordinal = i - 1
       /\ \A i \in 1..p : old[i].ordinal = i - 1
  BY <1>4, <1>5, <1>6 DEF InPlace
<1>11. p <= n /\ named = n
  <2>1. CASE p = 0
    BY <1>4, <1>6, <2>1
  <2>2. CASE p # 0
    <3>1. p \in 1..p
      BY <1>4, <2>2
    <3>2. PICK j \in 1..n : new[j].ordinal = p - 1
      BY <1>4, <1>7, <1>10, <3>1 DEF HasOrdinal
    <3>3. j - 1 = p - 1
      BY <1>10, <3>2
    <3> QED BY <1>4, <1>6, <3>3
  <2> QED BY <2>1, <2>2
<1> DEFINE a == ValuesOf(old)
           b == ValuesOf(moved)
<1>12. /\ DOMAIN a = 1..p /\ \A i \in 1..p : a[i] = old[i].value
       /\ DOMAIN b = 1..n /\ \A i \in 1..n : b[i] = moved[i].value
  BY <1>4, <1>5 DEF ValuesOf
<1>13. Len(a) = p /\ Len(b) = n
  BY <1>4, <1>12
<1> HIDE DEF a, b
<1>14. ASSUME NEW k \in DOMAIN all
       PROVE  all[k].ordinal \in Nat /\ Changed(all[k], a, b)
  <2>1. PICK d : d = all[k]
    OBVIOUS
  <2>2. d.op = IF d.ordinal < p THEN "update" ELSE "add"
    BY <1>6, <1>8, <2>1
  <2>3. d.ordinal \in Nat
    <3>1. d \in ChangesOf(Records[t])
      BY <1>2, <2>1
    <3> QED BY <3>1 DEF ChangesOf, Updates, Deletes
  <2>4. Brings(d, old, moved)
    BY <1>9, <2>1, <2>2 DEF Recorded, TakesAway
  <2>5. PICK j \in 1..n : moved[j].ordinal = d.ordinal /\ moved[j].value = d.value
    BY <1>5, <2>4 DEF Brings, Holds
  <2>6. d.ordinal + 1 = j /\ j \in Nat /\ j <= n
    BY <1>4, <1>10, <2>3, <2>5
  <2>7. d.value = b[j]
    BY <1>12, <2>5
  <2>8. CASE d.ordinal < p
    <3>1. d.op = "update" /\ j <= p
      BY <1>4, <2>2, <2>3, <2>6, <2>8
    <3> QED BY <1>13, <2>1, <2>3, <2>6, <2>7, <3>1 DEF Changed
  <2>9. CASE ~(d.ordinal < p)
    <3>1. d.op = "add" /\ j > p
      BY <1>4, <2>2, <2>3, <2>6, <2>9
    <3> QED BY <1>13, <2>1, <2>3, <2>6, <2>7, <3>1 DEF Changed
  <2> QED BY <2>8, <2>9
<1>15. ASSUME NEW i \in 1..(p + n)
       PROVE  \/ \E k \in DOMAIN all : all[k].ordinal = i - 1
              \/ i <= p /\ i <= n /\ a[i] = b[i]
              \/ i > p /\ i > n
  <2>1. CASE i > n
    BY <1>4, <1>11, <2>1
  <2>2. CASE ~(i > n)
    <3>1. i \in 1..n
      BY <1>4, <2>2
    <3>2. HasOrdinal(all, moved[i].ordinal) \/ Holds(old, moved[i].ordinal, moved[i].value)
      BY <1>5, <1>9, <3>1 DEF Recorded, AllTold
    <3>3. CASE HasOrdinal(all, moved[i].ordinal)
      BY <1>10, <3>1, <3>3 DEF HasOrdinal
    <3>4. CASE Holds(old, moved[i].ordinal, moved[i].value)
      <4>1. PICK j \in 1..p : old[j].ordinal = i - 1 /\ old[j].value = moved[i].value
        BY <1>4, <1>10, <3>1, <3>4 DEF Holds
      <4>2. j = i
        BY <1>4, <1>10, <4>1
      <4>3. i <= p /\ i <= n /\ a[i] = b[i]
        BY <1>4, <1>12, <3>1, <4>1, <4>2
      <4> QED BY <4>3
    <3> QED BY <3>2, <3>3, <3>4
  <2> QED BY <2>1, <2>2
<1>16. Edits(a, b, all)
  <2>1. p <= n + 1
    BY <1>4, <1>11
  <2> QED BY <1>8, <1>13, <1>14, <1>15, <2>1 DEF Edits
<1>17. InPlace(moved)
  BY <1>5, <1>10 DEF InPlace
<1>18. Numbered(t)'
  <2>1. InPlace(Base[t])'
    BY <1>1, <1>6 DEF Base, old
  <2> QED BY <1>1, <1>3, <1>5, <1>11, <1>17, <2>1 DEF Numbered, moved
<1> QED BY <1>16, <1>18 DEF a, b, old, moved, all

(* The values of a list are as many as its records.                        *)
LEMMA LengthOfValues ==
  ASSUME NEW S, NEW list \in Seq(S)
  PROVE  /\ DOMAIN ValuesOf(list) = DOMAIN list /\ Len(ValuesOf(list)) = Len(list)
         /\ \A i \in DOMAIN list : ValuesOf(list)[i] = list[i].value
<1>1. DOMAIN list = 1..Len(list) /\ Len(list) \in Nat
  OBVIOUS
<1>2. ValuesOf(list) = [i \in DOMAIN list |-> list[i].value]
  BY DEF ValuesOf
<1> QED BY <1>1, <1>2

(* The change records of a finished plain type edit too. *)
LEMMA PlainTypesEdit ==
  ASSUME EngineInv, NEW t \in PlainTypes, FinishPopulating, ~Shrinks, ~Vanishes
  PROVE  Edits(ValuesOf(previous[t]), ValuesOf(current'[t]), delta'[t])
<1>1. /\ PerformResharding \/ UNCHANGED <<current, shardCounts>>
      /\ CalculateDeletes
  BY DEF FinishPopulating
<1>2. /\ t \in Types /\ t \notin KeyedTypes
      /\ previous[t] \in Seq(Entries(t)) /\ current[t] \in Seq(Entries(t))
  BY TypesAssumption DEF EngineInv, EngineTypes, Types
<1>3. delta'[t] = DeltaOfPlain(ValuesOf(previous[t]), ValuesOf(current[t]))
  BY <1>1, <1>2 DEF CalculateDeletes
<1>4. ValuesOf(current'[t]) = ValuesOf(current[t])
  BY <1>1, <1>2, ReshardingMoves DEF ValuesOf
<1>5. ValuesOf(previous[t]) \in Seq(Records[t]) /\ ValuesOf(current[t]) \in Seq(Records[t])
  BY <1>2, ValuesAreTyped
<1>6. /\ Len(ValuesOf(previous[t])) = Len(previous[t])
      /\ Len(ValuesOf(current[t])) = Len(current[t])
  BY <1>2, LengthOfValues
<1>7. /\ Len(previous[t]) <= Len(current[t]) + 1
      /\ current[t] # <<>> \/ previous[t] = <<>>
  <2>1. CASE current[t] = <<>>
    <3>1. previous[t] = <<>>
      BY <2>1 DEF Vanishes
    <3> QED BY <2>1, <3>1
  <2>2. CASE current[t] # <<>>
    <3>1. ~(Len(previous[t]) > Len(current[t]) + 1)
      BY <2>2 DEF Shrinks
    <3>2. Len(previous[t]) \in Nat /\ Len(current[t]) \in Nat
      BY <1>2
    <3> QED BY <2>2, <3>1, <3>2
  <2> QED BY <2>1, <2>2
<1>8. ValuesOf(current[t]) # <<>> \/ ValuesOf(previous[t]) = <<>>
  <2>1. CASE current[t] # <<>>
    <3>1. Len(current[t]) # 0
      BY <1>2, <2>1
    <3>2. Len(<<>>) = 0
      OBVIOUS
    <3> QED BY <1>6, <3>1, <3>2
  <2>2. CASE previous[t] = <<>>
    BY <2>2 DEF ValuesOf
  <2> QED BY <1>7, <2>1, <2>2
<1> QED BY <1>3, <1>4, <1>5, <1>6, <1>7, <1>8, PlainEdits

(* FromDelta changes the form of a value and nothing else. *)
LEMMA FormIsChanged ==
  ASSUME NEW V, NEW d \in ChangesOf(V)
  PROVE  /\ FromDelta(d).op = d.op /\ FromDelta(d).ordinal = d.ordinal
         /\ d.op # "delete" => FromDelta(d).value = [value |-> d.value, wrapped |-> FALSE]
<1>1. CASE d.op = "delete"
  BY <1>1 DEF FromDelta
<1>2. CASE d.op # "delete"
  <2>1. d \in Updates(V)
    BY <1>2 DEF ChangesOf, Deletes
  <2>2. FromDelta(d) = [d EXCEPT !.value = [value |-> d.value, wrapped |-> FALSE]]
    BY <1>2 DEF FromDelta
  <2> QED BY <2>1, <2>2 DEF Updates
<1> QED BY <1>1, <1>2

(* The records of a consumer's list, and the changes as it gets them. *)
Mirrored(V) == [value : V, wrapped : BOOLEAN]
Forms(changes) == [k \in DOMAIN changes |-> FromDelta(changes[k])]

(* The consumer's list follows, whatever forms its records are in. *)
LEMMA MirrorApplies ==
  ASSUME NEW V, NEW old \in Seq(V), NEW new \in Seq(V), NEW changes \in Seq(ChangesOf(V)),
         Edits(old, new, changes),
         NEW list \in Seq(Mirrored(V)), ValuesOf(list) = old
  PROVE  /\ ApplyDelta(list, Forms(changes)) \in Seq(Mirrored(V))
         /\ ValuesOf(ApplyDelta(list, Forms(changes))) = new
<1> DEFINE F == [value : V, wrapped : BOOLEAN]
           forms == [k \in DOMAIN changes |-> FromDelta(changes[k])]
           told(i) == \E k \in DOMAIN changes : changes[k].ordinal = i - 1
           form(i) == [value |-> new[i], wrapped |-> IF told(i) THEN FALSE ELSE list[i].wrapped]
           after == [i \in 1..Len(new) |-> form(i)]
<1>1. PICK o, n, m : /\ o = Len(old) /\ n = Len(new) /\ m = Len(changes)
                     /\ o \in Nat /\ n \in Nat /\ m \in Nat
                     /\ DOMAIN old = 1..o /\ DOMAIN new = 1..n /\ DOMAIN changes = 1..m
  <2>1. ASSUME NEW S, NEW s \in Seq(S) PROVE Len(s) \in Nat /\ DOMAIN s = 1..Len(s)
    OBVIOUS
  <2> DEFINE C == ChangesOf(V)
  <2>2. changes \in Seq(C)
    OBVIOUS
  <2> HIDE DEF C
  <2>3. Len(changes) \in Nat /\ DOMAIN changes = 1..Len(changes)
    BY <2>2
  <2> QED BY <2>1, <2>3
<1>2. /\ DOMAIN list = 1..o /\ Len(list) = o
      /\ \A i \in 1..o : list[i] \in F /\ list[i].value = old[i]
  <2> HIDE DEF F
  <2>1. list \in Seq(F)
    BY DEF F, Mirrored
  <2>2. DOMAIN list = 1..Len(list) /\ \A i \in DOMAIN list : list[i] \in F
    BY <2>1
  <2>3. Len(old) = Len(list) /\ \A i \in DOMAIN list : old[i] = list[i].value
    BY <2>1, LengthOfValues
  <2> QED BY <1>1, <2>2, <2>3
<1>3. /\ o <= n + 1
      /\ \A k \in 1..m : changes[k].ordinal \in Nat /\ Changed(changes[k], old, new)
      /\ \A j, k \in 1..m : j < k => changes[j].ordinal < changes[k].ordinal
      /\ \A i \in 1..(o + n) :
           \/ told(i)
           \/ i <= o /\ i <= n /\ old[i] = new[i]
           \/ i > o /\ i > n
  BY <1>1 DEF Edits
<1>4. \A k \in 1..m :
        /\ forms[k].op = changes[k].op /\ forms[k].ordinal = changes[k].ordinal
        /\ changes[k].op # "delete" => forms[k].value = [value |-> changes[k].value, wrapped |-> FALSE]
  <2>1. \A k \in 1..m : changes[k] \in ChangesOf(V) /\ forms[k] = FromDelta(changes[k])
    BY <1>1
  <2> HIDE DEF forms
  <2> QED BY <2>1, FormIsChanged
<1>5. DOMAIN forms = 1..m
  BY <1>1
<1>6. ASSUME NEW i \in 1..n, ~told(i)
      PROVE  i \in 1..o /\ old[i] = new[i] /\ form(i) = list[i]
  <2>1. i \in 1..(o + n) /\ i <= n
    BY <1>1
  <2>2. i \in 1..o /\ old[i] = new[i]
    BY <1>1, <1>3, <1>6, <2>1
  <2>3. list[i] \in F /\ list[i].value = new[i]
    BY <1>2, <2>2
  <2>4. form(i) = [value |-> list[i].value, wrapped |-> list[i].wrapped]
    BY <1>6, <2>3
  <2>5. list[i] = [value |-> list[i].value, wrapped |-> list[i].wrapped]
    BY <2>3
  <2> QED BY <2>2, <2>4, <2>5
<1>7. \A i \in 1..n : form(i) \in F /\ form(i).value = new[i]
  <2> TAKE i \in 1..n
  <2>1. new[i] \in V
    BY <1>1
  <2>2. CASE told(i)
    <3>1. form(i) = [value |-> new[i], wrapped |-> FALSE]
      BY <2>2
    <3> HIDE DEF form
    <3> QED BY <2>1, <3>1
  <2>3. CASE ~told(i)
    <3>1. form(i) = list[i] /\ i \in 1..o /\ old[i] = new[i]
      BY <1>6, <2>3
    <3> HIDE DEF form
    <3> QED BY <1>2, <3>1
  <2> QED BY <2>2, <2>3
<1>8. ASSUME NEW k \in 1..m, NEW i, i = changes[k].ordinal + 1, i \in 1..n
      PROVE  form(i) = [value |-> new[i], wrapped |-> FALSE]
  <2>1. changes[k].ordinal = i - 1
    BY <1>3, <1>8
  <2>2. told(i)
    BY <1>1, <2>1
  <2> QED BY <2>2
<1> HIDE DEF form
<1>9. /\ after \in Seq(F) /\ DOMAIN after = 1..n /\ Len(after) = n
      /\ \A i \in 1..n : after[i] = form(i)
  BY <1>1, <1>7
<1>10. ValuesOf(after) = new
  <2>1. ValuesOf(after) = [i \in 1..n |-> after[i].value]
    BY <1>9 DEF ValuesOf
  <2>2. \A i \in 1..n : after[i].value = new[i]
    BY <1>7, <1>9
  <2>3. new = [i \in 1..n |-> new[i]]
    BY <1>1
  <2> HIDE DEF after
  <2> QED BY <2>1, <2>2, <2>3
<1> HIDE DEF after, forms
<1>11. ASSUME NEW k \in 1..m PROVE forms[k].ordinal \in Nat /\ Changed(forms[k], list, after)
  <2>1. PICK i : i = changes[k].ordinal + 1
    OBVIOUS
  <2>2. /\ i \in Nat /\ i >= 1 /\ Changed(changes[k], old, new) /\ changes[k].ordinal \in Nat
        /\ forms[k].op = changes[k].op /\ forms[k].ordinal = changes[k].ordinal
    <3>1. /\ changes[k].ordinal \in Nat /\ Changed(changes[k], old, new)
          /\ forms[k].op = changes[k].op /\ forms[k].ordinal = changes[k].ordinal
      BY <1>3, <1>4
    <3> QED BY <2>1, <3>1
  <2>3. CASE changes[k].op = "delete"
    <3>1. i = o /\ i > n
      BY <1>1, <2>1, <2>2, <2>3 DEF Changed
    <3> QED BY <1>2, <1>9, <2>1, <2>2, <2>3, <3>1 DEF Changed
  <2>4. CASE changes[k].op # "delete"
    <3>1. /\ i <= n /\ changes[k].value = new[i]
          /\ \/ changes[k].op = "update" /\ i <= o
             \/ changes[k].op = "add" /\ i > o
      BY <1>1, <2>1, <2>2, <2>4 DEF Changed
    <3>2. i \in 1..n
      BY <1>1, <2>2, <3>1
    <3>3. forms[k].value = after[i]
      BY <1>4, <1>8, <1>9, <2>1, <2>4, <3>1, <3>2
    <3> QED BY <1>2, <1>9, <2>1, <2>2, <3>1, <3>3 DEF Changed
  <2> QED BY <2>3, <2>4
<1>12. ASSUME NEW i \in 1..(o + n)
       PROVE  \/ \E k \in DOMAIN forms : forms[k].ordinal = i - 1
              \/ i <= o /\ i <= n /\ list[i] = after[i]
              \/ i > o /\ i > n
  <2>1. CASE told(i)
    BY <1>1, <1>4, <1>5, <2>1
  <2>2. CASE ~told(i) /\ i \in 1..n
    <3>1. form(i) = list[i] /\ i \in 1..o
      BY <1>6, <2>2
    <3>2. i <= o /\ i <= n /\ after[i] = form(i)
      BY <1>1, <1>9, <2>2, <3>1
    <3> QED BY <3>1, <3>2
  <2>3. CASE ~told(i) /\ i \notin 1..n
    <3>1. i > n /\ ~(i <= n)
      BY <1>1, <2>3
    <3> HIDE DEF told
    <3> QED BY <1>3, <2>3, <3>1
  <2> QED BY <2>1, <2>2, <2>3
<1>13. Edits(list, after, forms)
  <2>1. \A j, k \in 1..m : j < k => forms[j].ordinal < forms[k].ordinal
    BY <1>3, <1>4
  <2> QED BY <1>2, <1>3, <1>5, <1>9, <1>11, <1>12, <2>1 DEF Edits
<1>14. forms \in Seq({forms[k] : k \in 1..m})
  <2>1. forms = [k \in 1..m |-> forms[k]]
    BY <1>1 DEF forms
  <2> QED BY <1>1, <2>1
<1>15. ApplyDelta(list, forms) = after
  <2> HIDE DEF F
  <2>1. list \in Seq(F)
    BY DEF F, Mirrored
  <2> QED BY <1>9, <1>13, <1>14, <2>1, EditsApply
<1> QED BY <1>9, <1>10, <1>15 DEF forms, F, Forms, Mirrored

(* The values of a list, one by one.                                       *)
LEMMA ValuesAre ==
  ASSUME NEW data
  PROVE  /\ DOMAIN Values(data) = Types
         /\ \A t \in Types : Values(data)[t] = ValuesOf(data[t])
BY DEF Values

(* Who looks for nothing but tame cycles has seen no other shape. *)
LEMMA TameStep ==
  ASSUME [Next]_vars
  PROVE  /\ setting' = setting
         /\ Tame' => Tame
         /\ CyclesAreTame' => CyclesAreTame /\ KeysOnce
         /\ CyclesAreTame => ~EmptyCycle /\ ~Reject
<1>1. setting' = setting
  BY DEF Next, vars, StartCycle, Populate, EmptyCycle, IdenticalCycle, FinishPopulating, Reject,
         PublishSnapshot, PublishDelta
<1> QED BY <1>1 DEF Tame, SnapshotsOnly, CyclesAreTame, KeysOnce, EmptyCycle, Reject

(* Before the first cycle the consumer holds nothing of nothing.           *)
LEMMA FollowStarts == Init => FollowInv /\ Readable
<1> SUFFICES ASSUME Init PROVE FollowInv /\ Readable
  OBVIOUS
<1>1. /\ phase = "idle" /\ previous = NoRecords /\ current = NoRecords /\ published = NoRecords
      /\ mirror = NoRecords /\ stuck = FALSE
      /\ identity = [t \in KeyedTypes |-> <<>>]
  BY DEF Init, EngineInit
<1>2. \A t \in Types : NoRecords[t] = <<>>
  BY DEF NoRecords
<1>3. ValuesOf(<<>>) = <<>> /\ InPlace(<<>>) /\ Len(<<>>) = 0 /\ Cardinality(DOMAIN <<>>) = 0
  <2>1. Cardinality({}) = 0
    BY FS_EmptySet
  <2> QED BY <2>1 DEF ValuesOf, InPlace
<1>4. published = Values(Base)
  <2>1. \A t \in Types : ValuesOf(NoRecords[t]) = <<>>
    BY <1>2, <1>3
  <2> QED BY <1>1, <2>1 DEF Values, Base, NoRecords
<1>5. \A t \in KeyedTypes : Numbered(t)
  <2> TAKE t \in KeyedTypes
  <2>1. t \in Types
    BY DEF Types
  <2>2. identity[t] = <<>> /\ current[t] = <<>> /\ Base[t] = <<>>
    BY <1>1, <1>2, <2>1 DEF Base
  <2> QED BY <1>1, <1>3, <2>2 DEF Numbered
<1>6. \A t \in MisnamedTypes : previous[t] = <<>> /\ current[t] = <<>>
  BY <1>1, <1>2 DEF Types
<1>7. FollowInv
  BY <1>1, <1>4, <1>5, <1>6 DEF FollowInv
<1>8. Readable
  <2>1. DOMAIN mirror = Types
    BY <1>1 DEF NoRecords
  <2>2. ASSUME NEW t \in Types
        PROVE  /\ mirror[t] \in Seq([value : Records[t], wrapped : BOOLEAN])
               /\ ValuesOf(mirror[t]) = IF ShouldInclude(t) THEN published[t] ELSE <<>>
    <3>1. mirror[t] = <<>> /\ published[t] = <<>>
      BY <1>1, <1>2
    <3>2. <<>> \in Seq([value : Records[t], wrapped : BOOLEAN])
      OBVIOUS
    <3> QED BY <1>3, <3>1, <3>2
  <2> QED BY <1>1, <2>1, <2>2 DEF Readable
<1> QED BY <1>7, <1>8

(* A record of the callback keeps what is known of the ordinals.           *)
LEMMA PopulateFollows ==
  ASSUME EngineInv, EngineInv', OnceInv', FollowInv, CyclesAreTame, Populate
  PROVE  FollowInv'
<1>1. PICK t \in Types : \E r \in setting.offered[t] : Add(t, r)
  BY DEF Populate
<1>2. PICK r \in setting.offered[t] : Add(t, r)
  BY <1>1
<1>3. /\ r \in Records[t]
      /\ t \notin MisnamedTypes
      /\ setting' = setting /\ published' = published
      /\ phase = "populating" /\ phase' = "populating" /\ previous' = previous
      /\ MayStillComplete' /\ "reorder" \notin setting'.shapes
  <2>1. r \in Records[t]
    <3>1. setting \in Settings
      BY DEF EngineInv, EngineTypes
    <3> QED BY <3>1, PipelineAssumption
  <2>2. setting' = setting /\ published' = published /\ (~MayStillComplete' => "omit" \in setting.shapes)
    BY DEF Populate, pipelineVars
  <2>3. phase = "populating" /\ phase' = phase /\ previous' = previous
    BY <1>2 DEF Add
  <2> QED BY <1>2, <2>1, <2>2, <2>3 DEF CyclesAreTame
<1>4. /\ published = Values(previous)
      /\ \A u \in KeyedTypes : Numbered(u)
      /\ \A u \in MisnamedTypes : previous[u] = <<>> /\ current[u] = <<>>
  BY <1>3 DEF FollowInv, Base
<1>5. published' = Values(Base)'
  BY <1>3, <1>4 DEF Base, Values
<1>6. /\ \A u \in KeyedTypes : Numbered(u)'
      /\ \A u \in Types : u # t => current'[u] = current[u]
  <2>1. CASE t \in KeyedTypes
    <3>1. Once(current'[t])
      BY <2>1 DEF OnceInv
    <3>2. Numbered(t)'
      BY <1>2, <1>3, <1>4, <2>1, <3>1, AddKeepsNumbered
    <3>3. /\ \A u \in Types : u # t => current'[u] = current[u] /\ delta'[u] = delta[u]
          /\ \A u \in KeyedTypes : u # t => identity'[u] = identity[u]
      BY <1>2, <1>3, <2>1, AddHasEffect
    <3>4. ASSUME NEW u \in KeyedTypes, u # t PROVE Numbered(u)'
      <4>1. u \in Types
        BY DEF Types
      <4>2. /\ current'[u] = current[u] /\ delta'[u] = delta[u] /\ identity'[u] = identity[u]
            /\ Numbered(u)
        BY <1>4, <3>3, <3>4, <4>1
      <4> QED BY <1>3, <4>2 DEF Numbered, Base
    <3> QED BY <3>2, <3>3, <3>4
  <2>2. CASE t \notin KeyedTypes
    <3>1. current' = [current EXCEPT ![t] = Append(@, Bare(r))] /\ identity' = identity /\ delta' = delta
      BY <1>2, <2>2 DEF Add, AddTraditional
    <3>2. DOMAIN current = Types
      BY DEF EngineInv, EngineTypes
    <3>3. \A u \in Types : u # t => current'[u] = current[u]
      BY <3>1, <3>2
    <3>4. ASSUME NEW u \in KeyedTypes PROVE Numbered(u)'
      <4>1. u \in Types /\ u # t
        BY <2>2 DEF Types
      <4>2. current'[u] = current[u] /\ Numbered(u)
        BY <1>4, <3>3, <4>1
      <4> QED BY <1>3, <3>1, <4>2 DEF Numbered, Base
    <3> QED BY <3>3, <3>4
  <2> QED BY <2>1, <2>2
<1>7. \A u \in MisnamedTypes : previous'[u] = <<>> /\ current'[u] = <<>>
  BY <1>3, <1>4, <1>6 DEF Types
<1> QED BY <1>3, <1>5, <1>6, <1>7 DEF FollowInv

(* When the callback is done, the delta of each type leads from the list   *)
(* of the last version to the list of this one.                            *)
LEMMA FinishFollows ==
  ASSUME EngineInv, EngineInv', Counters, OnceInv', FollowInv, CyclesAreTame, FinishPopulating
  PROVE  FollowInv'
<1>1. /\ PerformResharding \/ UNCHANGED <<current, shardCounts>>
      /\ CalculateDeletes /\ ~Identical
      /\ phase = "populating" /\ phase' = "ready"
      /\ UNCHANGED <<setting, previous, identity, published, distance>>
      /\ ~Omits /\ ~Shrinks /\ ~Vanishes
  BY DEF FinishPopulating, pipelineVars, CycleAllowed, CyclesAreTame
<1>2. /\ published = Values(previous)
      /\ \A u \in KeyedTypes : Numbered(u)
      /\ \A u \in MisnamedTypes : previous[u] = <<>> /\ current[u] = <<>>
  BY <1>1 DEF FollowInv, Base
<1>3. published' = Values(Base)'
  BY <1>1, <1>2 DEF Base, Values
<1>4. ASSUME NEW t \in KeyedTypes
      PROVE  Numbered(t)' /\ Edits(ValuesOf(previous[t]), ValuesOf(current'[t]), delta'[t])
  <2>1. Missing(t) = {}
    BY <1>1 DEF Omits
  <2>2. Recorded(previous[t], current'[t], delta'[t])
    BY <1>1 DEF OnceInv
  <2> QED BY <1>2, <2>1, <2>2, KeyedTypesEdit
<1>5. ASSUME NEW t \in PlainTypes
      PROVE  Edits(ValuesOf(previous[t]), ValuesOf(current'[t]), delta'[t])
  BY <1>1, PlainTypesEdit
<1>6. ASSUME NEW t \in MisnamedTypes
      PROVE  /\ previous'[t] = <<>> /\ current'[t] = <<>>
             /\ Edits(ValuesOf(previous[t]), ValuesOf(current'[t]), delta'[t])
  <2>1. t \in Types /\ t \notin KeyedTypes /\ t \notin PlainTypes
    BY TypesAssumption DEF Types
  <2>2. delta'[t] = <<>>
    BY <1>1, <2>1 DEF CalculateDeletes
  <2>3. current'[t] = <<>>
    <3>1. current'[t] \in Seq(Entries(t)) /\ Len(current'[t]) = Len(current[t])
      BY <1>1, <2>1, ReshardingMoves
    <3> QED BY <1>2, <3>1
  <2>4. ValuesOf(<<>>) = <<>> /\ Edits(<<>>, <<>>, <<>>)
    BY DEF ValuesOf, Edits
  <2> QED BY <1>1, <1>2, <2>2, <2>3, <2>4
<1>7. distance = 0 \/ published # Values(current')
  <2>1. distance \in Nat
    <3>1. setting.NumStatesBetweenSnapshots \in Nat
      BY PipelineAssumption DEF EngineInv, EngineTypes
    <3> QED BY <3>1 DEF Counters
  <2>2. Values(current') = Values(current)
    <3>1. \A t \in Types : ValuesOf(current'[t]) = ValuesOf(current[t])
      BY <1>1, ReshardingMoves DEF ValuesOf
    <3> QED BY <3>1 DEF Values
  <2> QED BY <1>1, <2>1, <2>2 DEF Identical
<1>8. \A t \in Types : Edits(ValuesOf(previous[t]), ValuesOf(current'[t]), delta'[t])
  BY <1>4, <1>5, <1>6 DEF Types
<1>9. (Values(current))' = Values(current')
  BY DEF Values
<1>10. \A t \in Types : Edits(ValuesOf(previous[t]), ValuesOf(current[t]), delta[t])'
  <2> TAKE t \in Types
  <2>1. Edits(ValuesOf(previous'[t]), ValuesOf(current'[t]), delta'[t])
    BY <1>1, <1>8
  <2> QED BY <2>1
<1> QED BY <1>1, <1>3, <1>4, <1>6, <1>7, <1>9, <1>10 DEF FollowInv

(* Every step keeps what is known of the lists and the delta.              *)
LEMMA FollowStep ==
  ASSUME EngineInv, EngineInv', Counters, KeysOnce' => OnceInv',
         CyclesAreTame => FollowInv, [Next]_vars
  PROVE  CyclesAreTame' => FollowInv'
<1> SUFFICES ASSUME CyclesAreTame' PROVE FollowInv'
  OBVIOUS
<1>1. CyclesAreTame /\ FollowInv /\ ~EmptyCycle /\ ~Reject /\ setting' = setting
  BY TameStep
<1>2. OnceInv'
  BY <1>1 DEF CyclesAreTame, KeysOnce
<1>3. \A t \in Types : /\ current[t] \in Seq(Entries(t)) /\ Len(current[t]) \in Nat
                       /\ previous[t] \in Seq(Entries(t)) /\ Len(previous[t]) \in Nat
  BY DEF EngineInv, EngineTypes
<1>4. CASE StartCycle
  <2>1. /\ phase = "idle" /\ phase' = "populating" /\ previous' = current
        /\ current' = NoRecords /\ delta' = NoRecords /\ UNCHANGED <<identity, published>>
    BY <1>4 DEF StartCycle, PrepareForCycle, pipelineVars
  <2>2. \A t \in Types : current'[t] = <<>> /\ delta'[t] = <<>>
    BY <2>1 DEF NoRecords
  <2>3. published' = Values(Base)'
    BY <1>1, <2>1 DEF FollowInv, Base, Values
  <2>4. ASSUME NEW t \in KeyedTypes PROVE Numbered(t)'
    <3>1. t \in Types
      BY DEF Types
    <3>2. /\ InPlace(current[t])
          /\ Cardinality(DOMAIN identity[t]) = Len(current[t]) /\ Len(current[t]) \in Nat
      BY <1>1, <1>3, <2>1, <3>1 DEF FollowInv, Numbered, Base
    <3>3. current'[t] = <<>> /\ delta'[t] = <<>> /\ InPlace(<<>>) /\ Len(<<>>) = 0
      BY <2>2, <3>1 DEF InPlace
    <3> QED BY <2>1, <3>2, <3>3 DEF Numbered, Base
  <2>5. \A t \in MisnamedTypes : previous'[t] = <<>> /\ current'[t] = <<>>
    BY <1>1, <2>1, <2>2 DEF FollowInv, Types
  <2> QED BY <2>1, <2>3, <2>4, <2>5 DEF FollowInv
<1>5. CASE Populate
  BY <1>1, <1>2, <1>5, PopulateFollows
<1>6. CASE FinishPopulating
  BY <1>1, <1>2, <1>6, FinishFollows
<1>7. CASE IdenticalCycle
  <2>1. /\ phase = "populating" /\ phase' = "idle" /\ Values(current) = published
        /\ UNCHANGED <<previous, current, identity, delta, published>>
    BY <1>7 DEF IdenticalCycle, Identical, pipelineVars
  <2>2. published' = Values(Base)'
    BY <2>1 DEF Base, Values
  <2>3. ASSUME NEW t \in KeyedTypes PROVE Numbered(t)'
    <3>1. t \in Types
      BY DEF Types
    <3>2. ValuesOf(current[t]) = ValuesOf(previous[t])
      <4>1. Values(current) = Values(previous)
        BY <1>1, <2>1 DEF FollowInv, Base
      <4> QED BY <3>1, <4>1, ValuesAre
    <3>3. Len(current[t]) = Len(previous[t])
      <4>1. Len(ValuesOf(current[t])) = Len(current[t])
        BY <1>3, <3>1, LengthOfValues
      <4>2. Len(ValuesOf(previous[t])) = Len(previous[t])
        BY <1>3, <3>1, LengthOfValues
      <4> QED BY <3>2, <4>1, <4>2
    <3>4. InPlace(current[t]) /\ Cardinality(DOMAIN identity[t]) = Len(current[t])
      BY <1>1, <2>1, <3>3 DEF FollowInv, Numbered
    <3> QED BY <2>1, <3>4 DEF Numbered, Base
  <2> QED BY <1>1, <2>1, <2>2, <2>3 DEF FollowInv
<1>8. CASE PublishSnapshot \/ PublishDelta
  <2>1. /\ phase = "ready" /\ phase' = "idle" /\ published' = Values(current)
        /\ UNCHANGED <<previous, current, identity, delta>>
    BY <1>8 DEF PublishSnapshot, PublishDelta
  <2>2. published' = Values(Base)'
    BY <2>1 DEF Base, Values
  <2>3. \A t \in KeyedTypes : Numbered(t)'
    BY <1>1, <2>1 DEF FollowInv, Numbered, Base
  <2> QED BY <1>1, <2>1, <2>2, <2>3 DEF FollowInv
<1>9. CASE UNCHANGED vars
  <2>1. UNCHANGED <<phase, previous, current, identity, delta, published, distance>>
    BY <1>9 DEF vars, engineVars, pipelineVars
  <2>2. published' = Values(Base)' /\ (Values(current))' = Values(current)
    BY <1>1, <2>1 DEF FollowInv, Base, Values
  <2>3. \A t \in KeyedTypes : Numbered(t)'
    BY <1>1, <2>1 DEF FollowInv, Numbered, Base
  <2>4. \A t \in MisnamedTypes : previous'[t] = <<>> /\ current'[t] = <<>>
    BY <1>1, <2>1 DEF FollowInv
  <2>5. ASSUME phase' = "ready"
        PROVE  /\ distance' = 0 \/ published' # (Values(current))'
               /\ \A t \in Types : Edits(ValuesOf(previous[t]), ValuesOf(current[t]), delta[t])'
    <3>1. /\ distance = 0 \/ published # Values(current)
          /\ \A t \in Types : Edits(ValuesOf(previous[t]), ValuesOf(current[t]), delta[t])
      BY <1>1, <2>1, <2>5 DEF FollowInv
    <3>2. ASSUME NEW t \in Types
          PROVE  Edits(ValuesOf(previous[t]), ValuesOf(current[t]), delta[t])'
      <4>1. Edits(ValuesOf(previous'[t]), ValuesOf(current'[t]), delta'[t])
        BY <2>1, <3>1
      <4> QED BY <4>1
    <3> QED BY <2>1, <2>2, <3>1, <3>2
  <2> QED BY <2>2, <2>3, <2>4, <2>5 DEF FollowInv
<1> QED BY <1>1, <1>4, <1>5, <1>6, <1>7, <1>8, <1>9 DEF Next

(* A snapshot gives the consumer the records of its types.                 *)
LEMMA SnapshotIsRead ==
  ASSUME EngineInv, PublishSnapshot
  PROVE  Readable'
<1>1. /\ setting' = setting /\ mirror' = LoadSnapshot /\ stuck' = FALSE
      /\ published' = Values(current)
  BY DEF PublishSnapshot
<1>2. \A t \in Types : ShouldInclude(t)' <=> ShouldInclude(t)
  BY <1>1 DEF ShouldInclude
<1>3. ASSUME NEW t \in Types
      PROVE  /\ mirror'[t] \in Seq([value : Records[t], wrapped : BOOLEAN])
             /\ ValuesOf(mirror'[t]) = IF ShouldInclude(t) THEN published'[t] ELSE <<>>
  <2> DEFINE list == current[t]
             taken == [i \in DOMAIN list |-> FromSnapshot(list[i])]
             F == [value : Records[t], wrapped : BOOLEAN]
  <2>1. list \in Seq(Entries(t))
    BY DEF EngineInv, EngineTypes
  <2>2. mirror'[t] = IF ShouldInclude(t) THEN taken ELSE <<>>
    BY <1>1 DEF LoadSnapshot
  <2>3. published'[t] = ValuesOf(list)
    BY <1>1, ValuesAre
  <2>4. <<>> \in Seq(F) /\ ValuesOf(<<>>) = <<>>
    BY DEF ValuesOf
  <2> HIDE DEF list
  <2>5. \A i \in DOMAIN list : FromSnapshot(list[i]) \in F /\ FromSnapshot(list[i]).value = list[i].value
    <3>1. \A i \in DOMAIN list : list[i] \in Entries(t)
      BY <2>1
    <3>2. \A x \in Entries(t) : x.value \in Records[t] /\ x.wrapped \in BOOLEAN
      BY DEF Entries
    <3> QED BY <3>1, <3>2 DEF FromSnapshot
  <2>6. DOMAIN list = 1..Len(list) /\ Len(list) \in Nat
    BY <2>1
  <2>7. taken \in Seq(F)
    <3> HIDE DEF F
    <3> QED BY <2>5, <2>6
  <2>8. ValuesOf(taken) = ValuesOf(list)
    BY <2>5 DEF ValuesOf
  <2> HIDE DEF taken, F
  <2>9. mirror'[t] \in Seq(F) /\ ValuesOf(mirror'[t]) = IF ShouldInclude(t) THEN published'[t] ELSE <<>>
    BY <2>2, <2>3, <2>4, <2>7, <2>8
  <2> QED BY <2>9 DEF F
<1>4. DOMAIN mirror' = Types
  BY <1>1 DEF LoadSnapshot
<1>5. ASSUME NEW t \in Types
      PROVE  (ValuesOf(mirror[t]))' = IF ShouldInclude(t)' THEN published'[t] ELSE <<>>
  <2>1. (ValuesOf(mirror[t]))' = ValuesOf(mirror'[t])
    BY DEF ValuesOf
  <2> QED BY <1>2, <1>3, <2>1
<1> QED BY <1>1, <1>3, <1>4, <1>5 DEF Readable

(* So does a delta, to a consumer that held the version before.            *)
LEMMA DeltaIsRead ==
  ASSUME EngineInv, FollowInv, Readable, PublishDelta
  PROVE  Readable'
<1>1. /\ phase = "ready" /\ distance # 0
      /\ setting' = setting /\ stuck' = (stuck \/ delta = NoRecords)
      /\ mirror' = IF stuck' THEN mirror ELSE ApplyToIncluded
      /\ published' = Values(current)
  BY DEF PublishDelta, ShouldCreateSnapshot
<1>2. \A t \in Types : ShouldInclude(t)' <=> ShouldInclude(t)
  BY <1>1 DEF ShouldInclude
<1>3. /\ published = Values(previous) /\ published # Values(current)
      /\ \A t \in Types : Edits(ValuesOf(previous[t]), ValuesOf(current[t]), delta[t])
  BY <1>1 DEF FollowInv, Base
<1>4. \A t \in Types :
        /\ delta[t] \in Seq(ChangesOf(Records[t]))
        /\ ValuesOf(previous[t]) \in Seq(Records[t]) /\ ValuesOf(current[t]) \in Seq(Records[t])
  BY ValuesAreTyped DEF EngineInv, EngineTypes
<1>5. delta # NoRecords
  <2>1. SUFFICES ASSUME delta = NoRecords PROVE FALSE
    OBVIOUS
  <2>2. ASSUME NEW t \in Types PROVE ValuesOf(previous[t]) = ValuesOf(current[t])
    <3>1. delta[t] = <<>>
      BY <2>1 DEF NoRecords
    <3>2. ApplyDelta(ValuesOf(previous[t]), delta[t]) = ValuesOf(current[t])
      BY <1>3, <1>4, EditsApply
    <3>3. ApplyDelta(ValuesOf(previous[t]), <<>>) = ValuesOf(previous[t])
      BY NothingApplies
    <3> QED BY <3>1, <3>2, <3>3
  <2>3. Values(previous) = Values(current)
    BY <2>2 DEF Values
  <2> QED BY <1>3, <2>3
<1>6. ~stuck' /\ mirror' = ApplyToIncluded
  BY <1>1, <1>5 DEF Readable
<1>7. ASSUME NEW t \in Types
      PROVE  /\ mirror'[t] \in Seq([value : Records[t], wrapped : BOOLEAN])
             /\ ValuesOf(mirror'[t]) = IF ShouldInclude(t) THEN published'[t] ELSE <<>>
  <2>1. /\ mirror[t] \in Seq([value : Records[t], wrapped : BOOLEAN])
        /\ ValuesOf(mirror[t]) = IF ShouldInclude(t) THEN published[t] ELSE <<>>
    BY DEF Readable
  <2>2. mirror'[t] = IF ShouldInclude(t)
                     THEN ApplyDelta(mirror[t], [i \in DOMAIN delta[t] |-> FromDelta(delta[t][i])])
                     ELSE mirror[t]
    BY <1>6 DEF ApplyToIncluded
  <2>3. CASE ShouldInclude(t)
    <3>1. ValuesOf(mirror[t]) = ValuesOf(previous[t])
      BY <1>3, <2>1, <2>3, ValuesAre
    <3>2. /\ mirror'[t] \in Seq([value : Records[t], wrapped : BOOLEAN])
          /\ ValuesOf(mirror'[t]) = ValuesOf(current[t])
      <4>1. /\ mirror[t] \in Seq(Mirrored(Records[t]))
            /\ mirror'[t] = ApplyDelta(mirror[t], Forms(delta[t]))
        BY <2>1, <2>2, <2>3 DEF Mirrored, Forms
      <4>2. /\ mirror'[t] \in Seq(Mirrored(Records[t]))
            /\ ValuesOf(mirror'[t]) = ValuesOf(current[t])
        BY <1>3, <1>4, <3>1, <4>1, MirrorApplies
      <4> QED BY <4>2 DEF Mirrored
    <3>3. published'[t] = ValuesOf(current[t])
      BY <1>1, ValuesAre
    <3> QED BY <2>3, <3>2, <3>3
  <2>4. CASE ~ShouldInclude(t)
    BY <2>1, <2>2, <2>4
  <2> QED BY <2>3, <2>4
<1>8. DOMAIN mirror' = Types
  BY <1>6 DEF ApplyToIncluded
<1>9. ASSUME NEW t \in Types
      PROVE  (ValuesOf(mirror[t]))' = IF ShouldInclude(t)' THEN published'[t] ELSE <<>>
  <2>1. (ValuesOf(mirror[t]))' = ValuesOf(mirror'[t])
    BY DEF ValuesOf
  <2> QED BY <1>2, <1>7, <2>1
<1> QED BY <1>6, <1>7, <1>8, <1>9 DEF Readable

(* Every step leaves the consumer with the version published last.         *)
LEMMA ReadStep ==
  ASSUME EngineInv, Counters, Tame => Readable, CyclesAreTame => FollowInv, [Next]_vars
  PROVE  Tame' => Readable'
<1> SUFFICES ASSUME Tame' PROVE Readable'
  OBVIOUS
<1>1. Tame /\ Readable /\ setting' = setting
  BY TameStep
<1>2. CASE PublishSnapshot
  BY <1>2, SnapshotIsRead
<1>3. CASE PublishDelta
  <2>1. CASE CyclesAreTame
    BY <1>1, <1>3, <2>1, DeltaIsRead
  <2>2. CASE SnapshotsOnly
    <3>1. distance \in Nat /\ setting.NumStatesBetweenSnapshots = 1
      BY <2>2 DEF Counters, SnapshotsOnly
    <3>2. distance = 0 \/ distance >= setting.NumStatesBetweenSnapshots
      BY <3>1
    <3> QED BY <1>3, <3>2 DEF PublishDelta, ShouldCreateSnapshot
  <2> QED BY <1>1, <2>1, <2>2 DEF Tame
<1>4. CASE ~(PublishSnapshot \/ PublishDelta)
  <2>1. UNCHANGED <<setting, pipelineVars>>
    BY <1>4 DEF Next, StartCycle, Populate, EmptyCycle, IdenticalCycle, FinishPopulating,
                Reject, vars
  <2> QED BY <1>1, <2>1 DEF Readable, pipelineVars, ShouldInclude, ValuesOf
<1> QED BY <1>2, <1>3, <1>4

(***************************************************************************)
(* Whoever follows can read every version, and then holds exactly its      *)
(* records of the types its filter lets through (producer.go, RunCycle;    *)
(* state.go; consumer.go, applyDelta): with any number of types, keys and  *)
(* records, any filter, and with resharding or without, if every version   *)
(* is a snapshot, whatever the callbacks do, and through snapshots and     *)
(* deltas if the cycles are tame.                                          *)
(***************************************************************************)
THEOREM VersionsStayRead == Spec => [](Tame => EveryVersionIsRead)
<1> DEFINE Inv == /\ EngineInv /\ Counters
                  /\ KeysOnce => OnceInv
                  /\ Tame => Readable
                  /\ CyclesAreTame => FollowInv
<1>1. ASSUME Readable PROVE EveryVersionIsRead
  <2>1. Values(mirror) = [t \in Types |-> IF ShouldInclude(t) THEN published[t] ELSE <<>>]
    BY <1>1 DEF Readable, Values
  <2> QED BY <1>1, <2>1 DEF Readable, EveryVersionIsRead, NeverStuck, MirrorMatches
<1>2. Init => (Tame => Readable) /\ (CyclesAreTame => FollowInv)
  BY FollowStarts
<1>3. ASSUME EngineInv, Counters, EngineInv', KeysOnce' => OnceInv',
             Tame => Readable, CyclesAreTame => FollowInv, [Next]_vars
      PROVE  (Tame' => Readable') /\ (CyclesAreTame' => FollowInv')
  BY <1>3, FollowStep, ReadStep
<1>4. Spec => []((Tame => Readable) /\ (CyclesAreTame => FollowInv))
  BY <1>2, <1>3, EngineInvariant, OnceInvariant, PTL DEF Spec
<1> QED BY <1>1, <1>4, PTL
=============================================================================
