---------------------------- MODULE Serialization ----------------------------
(***************************************************************************)
(* The serializers of internal/serialization.go, which the producer and    *)
(* the consumer choose independently of each other.  Of the bytes of a     *)
(* blob only their format matters:                                         *)
(*   "json"    a snapshot of TraditionalSerializer,                        *)
(*   "capnp"   a snapshot of CapnProtoSerializer, whose first word is a    *)
(*             zero segment count,                                         *)
(*   "text"    a delta of TraditionalSerializer, "DeltaSet:&{...",         *)
(*   "packed"  a delta of CapnProtoSerializer, whose first byte is the     *)
(*             tag of its first word and never zero,                       *)
(*   "empty"   the delta without bytes of Producer.storeBlob.              *)
(* A state is the list of one type's records, a delta a sequence of        *)
(* DeltaSet.tla.  What a reader makes of bytes it does not understand goes *)
(* under a type name of its own ("String", "default"), so that the type    *)
(* modelled here has no records then.                                      *)
(***************************************************************************)
EXTENDS DeltaSet

CONSTANTS
  LargeState,    \* records above which a hybrid writes Cap'n Proto (1000 in the code)
  LargeDelta     \* the same for the changes of a delta (100 in the code)

ASSUME SerializationAssumption == LargeState \in Nat /\ LargeDelta \in Nat

(* NewHybridSerializer takes the mode for small data; SerializerFactory    *)
(* passes ZeroCopyMode.                                                    *)
Hybrids == {"hybrid", "hybridTraditional"}
Serializers == {"traditional", "zerocopy"} \cup Hybrids

DefaultMode(serializer) ==
  IF serializer = "hybrid" THEN "zerocopy" ELSE "traditional"

DetermineMode(serializer, isLarge) ==
  IF serializer \notin Hybrids THEN serializer
  ELSE IF isLarge THEN "zerocopy" ELSE DefaultMode(serializer)

Serialize(serializer, state) ==
  [format |-> IF DetermineMode(serializer, Len(state) > LargeState) = "zerocopy"
              THEN "capnp" ELSE "json",
   payload |-> state]

(* storeBlob does not call the serializer for a delta without changes. *)
SerializeDelta(serializer, delta) ==
  [format |-> IF delta = <<>> THEN "empty"
              ELSE IF DetermineMode(serializer, Len(delta) > LargeDelta) = "zerocopy"
              THEN "packed" ELSE "text",
   payload |-> delta]

-----------------------------------------------------------------------------
(* Two zero bytes in front mean Cap'n Proto. *)
DetectMode(bytes) == IF bytes.format = "capnp" THEN "zerocopy" ELSE "traditional"

ReadMode(serializer, bytes) ==
  IF serializer \in Hybrids THEN DetectMode(bytes) ELSE serializer

(* Deserialize of a snapshot, or of a delta for a zero-copy view.  Cap'n   *)
(* Proto falls back to the packed encoding; JSON never fails.              *)
CanDeserialize(serializer, bytes) ==
  ReadMode(serializer, bytes) = "zerocopy" => bytes.format \in {"capnp", "packed"}

Deserialize(serializer, bytes) ==
  IF bytes.format = (IF ReadMode(serializer, bytes) = "zerocopy" THEN "capnp" ELSE "json")
  THEN bytes.payload ELSE <<>>

HasZeroCopyView(serializer, bytes) ==
  CanDeserialize(serializer, bytes) /\ ReadMode(serializer, bytes) = "zerocopy"

(* TraditionalSerializer turns every delta into one without changes. *)
CanDeserializeDelta(serializer, bytes) ==
  ReadMode(serializer, bytes) = "zerocopy" => bytes.format = "packed"

DeserializeDelta(serializer, bytes) ==
  IF ReadMode(serializer, bytes) = "zerocopy" THEN bytes.payload ELSE <<>>
=============================================================================
