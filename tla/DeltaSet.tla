------------------------------ MODULE DeltaSet ------------------------------
(***************************************************************************)
(* The change records of one type (internal/delta.go) and what a consumer  *)
(* does with them (consumer/consumer.go, applyDelta).  A DeltaSet maps     *)
(* every type to such a sequence; types do not interact.  Ordinals count   *)
(* from 0, as in the code.                                                 *)
(***************************************************************************)
EXTENDS SequencesExt, Integers

DeltaAdd(ordinal, value) == [op |-> "add", ordinal |-> ordinal, value |-> value]

(* Slip, no part of the model: updates count ordinals from 1               *)
(* (EveryVersionIsRead).                                                   *)
DeltaUpdateFromOne(ordinal, value) ==
  [op |-> "update", ordinal |-> ordinal + 1, value |-> value]

DeltaUpdate(ordinal, value) == [op |-> "update", ordinal |-> ordinal, value |-> value]
DeltaDelete(ordinal) == [op |-> "delete", ordinal |-> ordinal]

(* Where the records of one ordinal are. *)
WithOrdinal(records, ordinal) == {i \in DOMAIN records : records[i].ordinal = ordinal}

(* The numbers of a finite set, the smallest first. *)
InOrder(S) ==
  [k \in 1..Cardinality(S) |-> CHOOSE n \in S : Cardinality({m \in S : m < n}) = k - 1]

(* The record that stands for all those of one ordinal: the last one, but  *)
(* a delete always wins.                                                   *)
FinalRecord(records, ordinal) ==
  LET same == WithOrdinal(records, ordinal)
      deletes == {i \in same : records[i].op = "delete"}
  IN records[IF deletes = {} THEN Max(same) ELSE Min(deletes)]

(* One record per ordinal, in ordinal order. *)
OptimizeTypeDelta(records) ==
  LET ordinals == InOrder({r.ordinal : r \in ToSet(records)})
  IN [i \in DOMAIN ordinals |-> FinalRecord(records, ordinals[i])]

(* Records of a type without a primary key are compared position by        *)
(* position (generateDeltasForNonPKTypes); a type that has no records any  *)
(* more is not looked at.                                                  *)
DeltaOfPlain(old, new) ==
  LET changed == {i \in 1..(Len(old) + Len(new)) :
                    \/ i <= Len(new) /\ i > Len(old)
                    \/ i <= Len(old) /\ i > Len(new)
                    \/ i <= Len(old) /\ i <= Len(new) /\ old[i] # new[i]}
      at == InOrder(changed)
      change(i) == IF i > Len(old) THEN DeltaAdd(i - 1, new[i])
                   ELSE IF i > Len(new) THEN DeltaDelete(i - 1)
                   ELSE DeltaUpdate(i - 1, new[i])
  IN IF new = <<>> THEN <<>> ELSE [k \in DOMAIN at |-> change(at[k])]

-----------------------------------------------------------------------------
(* The consumer keeps a list of records and reads the ordinal as a         *)
(* position in the list as it is by then; what lies outside is skipped.    *)
ApplyRecord(list, d) ==
  IF d.op = "add" THEN Append(list, d.value)
  ELSE IF d.ordinal >= Len(list) THEN list
  ELSE IF d.op = "update" THEN ReplaceAt(list, d.ordinal + 1, d.value)
  ELSE RemoveAt(list, d.ordinal + 1)

ApplyDelta(list, delta) ==
  LET after[n \in 0..Len(delta)] ==
        IF n = 0 THEN list ELSE ApplyRecord(after[n - 1], delta[n])
  IN after[Len(delta)]
=============================================================================
