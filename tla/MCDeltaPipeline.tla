-------------------------- MODULE MCDeltaPipeline --------------------------
(***************************************************************************)
(* Instances of DeltaPipeline for TLC.  Types do not interact except in    *)
(* the test for an empty delta, so that most settings have one or two.     *)
(***************************************************************************)
EXTENDS DeltaPipeline

Movie == {"Movie"}
Plain == {"Rating", "Review"}
Misnamed == {"Award"}
None == {}

Record(keys) == [key : keys, val : {"a", "b"}]
AllRecords ==
  [t \in Movie \cup Plain \cup Misnamed |-> Record(IF t \in Movie THEN {1, 2, 3} ELSE {1})]

(* One key more than shards, so that two keys share one. *)
IdHash == [k \in {1, 2, 3} |-> k + 4]

Offer(offers) == [t \in DOMAIN AllRecords |-> IF t \in DOMAIN offers THEN offers[t] ELSE {}]
Setting(shapes, spacing, resharding, offers) ==
  [shapes |-> shapes, NumStatesBetweenSnapshots |-> spacing, TypeResharding |-> resharding,
   offered |-> Offer(offers), filter |-> NewTypeFilter]

(* Every cycle of a keyed type that adds a key at most once; every version *)
(* is a snapshot.                                                          *)
EngineSetting ==
  Setting(ShapeNames \ {"repeat"}, 1, TRUE, [Movie |-> Record({1, 2, 3})])

(* A keyed type that only grows and changes beside a plain one that loses  *)
(* at most one record per cycle, through snapshots and deltas.             *)
DeltaSetting ==
  Setting({}, 3, FALSE, [Movie |-> Record({1, 2}), Rating |-> Record({1})])

(* Nothing filtered, one of the types excluded, all but one. *)
FilterSettings ==
  {[DeltaSetting EXCEPT !.filter = f] :
     f \in {NewTypeFilter, Exclude(NewTypeFilter, "Rating"),
            Include(ExcludeAll(NewTypeFilter), "Rating")}}

TameSettings == {EngineSetting} \cup FilterSettings

-----------------------------------------------------------------------------
(* What goes wrong otherwise (README, known divergences). *)
Keyed(shapes) == {Setting(shapes, 3, FALSE, [Movie |-> Record({1, 2, 3})])}
OmitSettings == Keyed({"omit"})          \* MirrorMatches
RepeatSettings == Keyed({"repeat"})      \* KeyedDeltaComplete
ReorderSettings == Keyed({"reorder"})    \* NeverStuck
FormSettings == Keyed({})                \* OneForm
ShrinkSettings == {Setting({"shrink"}, 3, FALSE, [Rating |-> Record({1})])}   \* MirrorMatches
VanishSettings ==                        \* MirrorMatches
  {Setting({"vanish"}, 3, FALSE, [Rating |-> Record({1}), Review |-> Record({1})])}
StructSettings == Keyed({"repeat"})      \* KeysAreUnique, with StructTypes <- Movie
MisnamedSettings == {Setting({}, 3, FALSE, [Award |-> Record({1})])}          \* NeverStuck
=============================================================================
