------------------------------- MODULE Indexes -------------------------------
(***************************************************************************)
(* Lookups through index/zero_copy_index.go and index/index.go while the   *)
(* consumer moves on to other views: a ZeroCopyIndexManager builds its     *)
(* indexes from one view and keeps them, and iterators keep the slice they *)
(* were made for.  Of a buffer only its length matters, since what the     *)
(* builder extracts is made up from names and positions; views tells       *)
(* buffers of one length apart.  The indexes of index.go are over a read   *)
(* engine, of which they read nothing.                                     *)
(***************************************************************************)
EXTENDS SequencesExt, Integers

CONSTANTS
  RecordSize,     \* estimated bytes of a record (64 in the code)
  BufferSizes,    \* lengths a view's buffer may have
  Catalogue,      \* what BuildAllIndexes is given: type -> its field names
  MaxViews        \* bound on the views of a consumer

ASSUME IndexesAssumption ==
  RecordSize \in Nat \ {0} /\ BufferSizes \subseteq Nat /\ MaxViews \in Nat

VARIABLES
  views,             \* the lengths of the consumer's views so far, newest last
  builder,           \* the view the manager was made for
  unindexed,         \* types BuildAllIndexes has not come to
  hashIndexes, uniqueIndexes, primaryKeyIndexes,   \* name -> key -> what it finds
  iterator           \* of the last FindMatches: its slice, where it is, what it gave

indexVars ==
  <<views, builder, unindexed, hashIndexes, uniqueIndexes, primaryKeyIndexes, iterator>>

NoIterator == [slice |-> <<>>, current |-> -1, given |-> <<>>, ended |-> TRUE]

IndexInit ==
  /\ \E size \in BufferSizes : views = <<size>>
  /\ builder = 0
  /\ unindexed = {}
  /\ hashIndexes = <<>> /\ uniqueIndexes = <<>> /\ primaryKeyIndexes = <<>>
  /\ iterator = NoIterator

-----------------------------------------------------------------------------
FieldName(type, field) == type \o "_" \o field
FieldValue(type, field, i) == FieldName(type, field) \o "_" \o ToString(i)

(* Slip: the bytes behind the last record count as one (QueriesAgree). *)
RecordCountRoundedUp == (views[builder] + RecordSize - 1) \div RecordSize
RecordCount == views[builder] \div RecordSize

(* ZeroCopyRecord: an offset and the buffer it is an offset into. *)
Record(i) == [offset |-> i * RecordSize, view |-> builder]

(* Slip: records look into the newest view (QueriesAgree). *)
BufferOfNewest(record) == views[Len(views)]
BufferOf(record) == views[record.view]

(* GetData, by how many bytes it returns. *)
DataSize(record) ==
  IF record.offset >= BufferOf(record) THEN 0
  ELSE Min({RecordSize, BufferOf(record) - record.offset})

(* createKey and GetMatch: the parts between bars. *)
CompositeKey(parts) ==
  FoldLeft(LAMBDA key, part : IF key = "" THEN part ELSE key \o "|" \o part, "", parts)

Positions == 0..(RecordCount - 1)

HashIndex(type, field) ==
  [value \in {FieldValue(type, field, i) : i \in Positions} |->
     LET at == SetToSortSeq({i \in Positions : FieldValue(type, field, i) = value}, <)
     IN [n \in DOMAIN at |-> Record(at[n])]]

(* A duplicate would make BuildUniqueIndex and BuildPrimaryKeyIndex fail. *)
UniqueIndex(type, field) ==
  [value \in {FieldValue(type, field, i) : i \in Positions} |->
     Record(CHOOSE i \in Positions : FieldValue(type, field, i) = value)]

KeyAt(type, i) ==
  CompositeKey([n \in DOMAIN Catalogue[type] |-> FieldValue(type, Catalogue[type][n], i)])
PrimaryKeyIndex(type) ==
  [key \in {KeyAt(type, i) : i \in Positions} |->
     Record(CHOOSE i \in Positions : KeyAt(type, i) = key)]

-----------------------------------------------------------------------------
(* The consumer refreshes; what was built stays as it is. *)
NewView ==
  /\ Len(views) < MaxViews
  /\ \E size \in BufferSizes : views' = Append(views, size)
  /\ UNCHANGED <<builder, unindexed, hashIndexes, uniqueIndexes, primaryKeyIndexes, iterator>>

NewZeroCopyIndexManager ==
  /\ unindexed = {}
  /\ builder < Len(views)
  /\ builder' = Len(views)
  /\ unindexed' = DOMAIN Catalogue
  /\ hashIndexes' = <<>> /\ uniqueIndexes' = <<>> /\ primaryKeyIndexes' = <<>>
  /\ UNCHANGED <<views, iterator>>

(* A step of BuildAllIndexes, in Go's order of the schema, after which the *)
(* caller adds an index over the type's whole key.                         *)
IndexType(type) ==
  LET fields == ToSet(Catalogue[type])
      named == [name \in {FieldName(type, f) : f \in fields} |->
                  HashIndex(type, CHOOSE f \in fields : FieldName(type, f) = name)]
      unique == [name \in {FieldName(type, f) : f \in fields \cap {"id", "Id"}} |->
                   UniqueIndex(type, CHOOSE f \in fields : FieldName(type, f) = name)]
  IN /\ unindexed' = unindexed \ {type}
     /\ hashIndexes' = named @@ hashIndexes
     /\ uniqueIndexes' = unique @@ uniqueIndexes
     /\ primaryKeyIndexes' = (type :> PrimaryKeyIndex(type)) @@ primaryKeyIndexes
     /\ UNCHANGED <<views, builder, iterator>>

Find(index, key) == IF key \in DOMAIN index THEN index[key] ELSE <<>>

(* FindByHashIndex asks for the matches and calls Next until it says no. *)
FindMatches(name, key) ==
  /\ unindexed = {}
  /\ iterator.ended
  /\ iterator' = [NoIterator EXCEPT !.slice = Find(hashIndexes[name], key), !.ended = FALSE]
  /\ UNCHANGED <<views, builder, unindexed, hashIndexes, uniqueIndexes, primaryKeyIndexes>>

IteratorNext ==
  LET current == iterator.current + 1
      ended == current >= Len(iterator.slice)
  IN /\ ~iterator.ended
     /\ iterator' = [iterator EXCEPT
          !.current = current, !.ended = ended,
          !.given = IF ended THEN @ ELSE Append(@, iterator.slice[current + 1])]
     /\ UNCHANGED <<views, builder, unindexed, hashIndexes, uniqueIndexes, primaryKeyIndexes>>

-----------------------------------------------------------------------------
(* The hash, unique, primary key and byte array indexes of index.go:       *)
(* DetectUpdates clears what they hold, and rebuildIndex adds nothing.     *)
NewClassicIndex == <<>>
RebuildIndex(indexData) == indexData
DetectUpdates(indexData) == RebuildIndex(NewClassicIndex)
ClassicFind(indexData, values) == Find(indexData, CompositeKey(values))
UniqueMatch(indexData, key) == Find(indexData, key)
PrimaryKeyMatch(indexData, keys) == Find(indexData, CompositeKey(keys))
FindByBytes(indexData, bytes) == Find(indexData, bytes)

(* ZeroCopyQueryEngine's queries of a view's buffer of a size: a count, the *)
(* number of bytes at an offset (or -1, an error), and two texts, whatever *)
(* field is asked for.                                                     *)
CountRecords(size) == size \div RecordSize
FindByOffset(size, offset) ==
  IF offset < 0 \/ offset >= size THEN -1 ELSE Min({RecordSize, size - offset})
ExtractField(size, field) == <<[field |-> field], [bufferSize |-> size]>>

-----------------------------------------------------------------------------
IndexNext ==
  \/ NewView \/ NewZeroCopyIndexManager
  \/ \E type \in unindexed : IndexType(type)
  \/ \E name \in DOMAIN hashIndexes : \E key \in DOMAIN hashIndexes[name] : FindMatches(name, key)
  \/ IteratorNext

IndexSpec == IndexInit /\ [][IndexNext]_indexVars

-----------------------------------------------------------------------------
(***************************************************************************)
(* Once everything is indexed, a lookup by the value of a field or by the  *)
(* whole key finds the record that has it and no other, although indexes   *)
(* of two types can have one name ("a_b" of c, a of "b_c"), and what it    *)
(* finds has all its bytes, whatever view the consumer has by then; an     *)
(* iteration gives all of it.  The query engine counts as many records in  *)
(* the indexed view and finds each of them whole.                          *)
(***************************************************************************)
LookupsAreExact ==
  /\ builder > 0 /\ unindexed = {} =>
       \A type \in DOMAIN Catalogue : \A i \in Positions :
         /\ \A field \in ToSet(Catalogue[type]) :
              LET name == FieldName(type, field)  value == FieldValue(type, field, i) IN
              /\ Find(hashIndexes[name], value) = <<Record(i)>>
              /\ field \in {"id", "Id"} => Find(uniqueIndexes[name], value) = Record(i)
         /\ FindByOffset(views[builder], Record(i).offset) = RecordSize
         /\ Catalogue[type] # <<>> => Find(primaryKeyIndexes[type], KeyAt(type, i)) = Record(i)
  /\ builder > 0 => CountRecords(views[builder]) = Cardinality(Positions)
  /\ iterator.ended => iterator.given = iterator.slice
  /\ \A n \in DOMAIN iterator.given : DataSize(iterator.given[n]) = RecordSize

(* index.go:97, in DetectUpdates: "Rebuild index from current state".  The *)
(* records a view has are not found by their key after it.                 *)
ClassicLookupsFind ==
  builder > 0 =>
    \A type \in DOMAIN Catalogue : \A i \in Positions :
      LET indexData == DetectUpdates(NewClassicIndex)
          key == [n \in DOMAIN Catalogue[type] |-> FieldValue(type, Catalogue[type][n], i)]
      IN /\ ClassicFind(indexData, key) # <<>>
         /\ PrimaryKeyMatch(indexData, key) # <<>>
         /\ \A n \in DOMAIN key : UniqueMatch(indexData, key[n]) # <<>>
         /\ \A n \in DOMAIN key : FindByBytes(indexData, key[n]) # <<>>

(* The query engine extracts a value per record: it extracts two always.   *)
ExtractionIsComplete ==
  builder > 0 =>
    \A field \in UNION {ToSet(Catalogue[type]) : type \in DOMAIN Catalogue} :
      Len(ExtractField(views[builder], field)) = CountRecords(views[builder])
=============================================================================
