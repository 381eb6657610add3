------------------------------ MODULE DataDiff ------------------------------
(***************************************************************************)
(* legacy/diff.go and ValidateDelta of legacy/delta.go.  The code's maps   *)
(* are functions, and since a diff's three lists come from ranging over    *)
(* maps, in no particular order, they are sets here.                       *)
(***************************************************************************)

(* Slip: a changed key is counted as added and as changed.                 *)
DiffDataTwice(old, new) ==
  [ added   |-> {k \in DOMAIN new : k \notin DOMAIN old \/ old[k] # new[k]},
    changed |-> {k \in DOMAIN new \cap DOMAIN old : old[k] # new[k]},
    removed |-> DOMAIN old \ DOMAIN new ]

DiffData(old, new) ==
  [ added   |-> DOMAIN new \ DOMAIN old,
    changed |-> {k \in DOMAIN new \cap DOMAIN old : old[k] # new[k]},
    removed |-> DOMAIN old \ DOMAIN new ]

NoDiff == [added |-> {}, changed |-> {}, removed |-> {}]

(* The target after d has been applied to it with the values of source: a  *)
(* key source lacks is neither added nor changed.                          *)
Apply(d, target, source) ==
  LET written == (d.added \cup d.changed) \cap DOMAIN source
  IN [k \in (DOMAIN target \cup written) \ d.removed |->
        IF k \in written THEN source[k] ELSE target[k]]

(* DeltaConsumer.ApplyDelta passes its base as the source, too.            *)
ApplyDelta(base, d) == Apply(d, base, base)

ValidateDelta(d) ==
  /\ d.added \cap d.removed = {}
  /\ d.added \cap d.changed = {}
  /\ d.changed \cap d.removed = {}
=============================================================================
