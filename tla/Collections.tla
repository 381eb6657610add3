----------------------------- MODULE Collections -----------------------------
(***************************************************************************)
(* collections/collections.go: sets, maps and lists that are made once     *)
(* from a slice and an ordinal, where ordinal 0 hides whatever is in them. *)
(* A caller builds the slices of two collections entry by entry; each      *)
(* slice can become a map, the set of its keys or the list of its values.  *)
(***************************************************************************)
EXTENDS SequencesExt, Integers

CONSTANTS
  MapKeys, MapValues,
  NoValue,         \* the zero value
  MaxEntries       \* bound on the entries of a collection

ASSUME CollectionsAssumption == NoValue \notin MapValues /\ MaxEntries \in Nat

VARIABLES
  one, other       \* the entries and ordinals of two collections

collectionVars == <<one, other>>

Ordinals == {0, 1}
Entry(k, v) == [key |-> k, value |-> v]

CollectionInit ==
  /\ one \in [entries : {<<>>}, ordinal : Ordinals]
  /\ other \in [entries : {<<>>}, ordinal : Ordinals]

Extended(c) ==
  {[c EXCEPT !.entries = Append(@, Entry(k, v))] : k \in MapKeys, v \in MapValues}

AddEntry ==
  \/ Len(one.entries) < MaxEntries /\ one' \in Extended(one) /\ UNCHANGED other
  \/ Len(other.entries) < MaxEntries /\ other' \in Extended(other) /\ UNCHANGED one

CollectionNext == AddEntry

CollectionSpec == CollectionInit /\ [][CollectionNext]_collectionVars

-----------------------------------------------------------------------------
(* The Go map behind a map or set: of two entries with one key the later   *)
(* counts.                                                                 *)
MapOf(c) ==
  [k \in {e.key : e \in ToSet(c.entries)} |->
     c.entries[Max({i \in DOMAIN c.entries : c.entries[i].key = k})].value]

Hidden(c) == c.ordinal = 0

Get(c, k) == IF Hidden(c) \/ k \notin DOMAIN MapOf(c) THEN NoValue ELSE MapOf(c)[k]
HasKey(c, k) == ~Hidden(c) /\ k \in DOMAIN MapOf(c)
Size(c) == IF Hidden(c) THEN 0 ELSE Cardinality(DOMAIN MapOf(c))

(* What an iteration over Keys, Values or a set may give, in Go's order.   *)
Keys(c) == IF Hidden(c) THEN {<<>>} ELSE SetToSeqs(DOMAIN MapOf(c))
Values(c) == {[n \in DOMAIN order |-> MapOf(c)[order[n]]] : order \in Keys(c)}
EntrySet(c) == {[n \in DOMAIN order |-> Entry(order[n], MapOf(c)[order[n]])] : order \in Keys(c)}

(* Slip: the sizes are not compared (QueriesAgree). *)
MapEqualsWithoutSize(a, b) ==
  \A k \in DOMAIN MapOf(a) : HasKey(b, k) /\ MapOf(a)[k] = Get(b, k)

(* The entries of the receiver are compared hidden or not. *)
MapEquals(a, b) ==
  /\ Size(a) = Size(b)
  /\ \A k \in DOMAIN MapOf(a) : HasKey(b, k) /\ MapOf(a)[k] = Get(b, k)

(* Contains of a set is HasKey; a list counts from 0. *)
ListGet(c, i) ==
  IF Hidden(c) \/ i < 0 \/ i >= Len(c.entries) THEN NoValue ELSE c.entries[i + 1].value
ListSize(c) == IF Hidden(c) THEN 0 ELSE Len(c.entries)

-----------------------------------------------------------------------------
(***************************************************************************)
(* Two maps are equal exactly if no call can tell them apart, and what the *)
(* iterations give adds up to what Get, HasKey and Size say, although      *)
(* entries repeat keys and come in any order.  (A hidden map with entries  *)
(* is not equal to the empty map it looks like, unless it is asked.)       *)
(***************************************************************************)
CollectionsAgree ==
  /\ ~(Hidden(one) /\ one.entries # <<>>) =>
       (MapEquals(one, other) <=> \A k \in MapKeys : Get(one, k) = Get(other, k))
  /\ \A order \in EntrySet(one) :
       /\ Len(order) = Size(one)
       /\ \A n \in DOMAIN order :
            /\ HasKey(one, order[n].key) /\ Get(one, order[n].key) = order[n].value
            /\ \A m \in 1..(n - 1) : order[m].key # order[n].key
  /\ \A values \in Values(one) : Len(values) = Size(one)
  /\ \A i \in 0..MaxEntries : ListGet(one, i) # NoValue <=> i < ListSize(one)
=============================================================================
