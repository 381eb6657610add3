---------------------------- MODULE MCS3Hollow ----------------------------
(***************************************************************************)
(* Instances of S3Hollow for TLC.                                          *)
(***************************************************************************)
EXTENDS S3Hollow

CONSTANTS publisher, janitor, near, far, here, there

TwoLists == {<<1>>, <<1, 2>>}

(* The hypothesis of the theorem about what is read holds of these lists. *)
ASSUME ListsCanBeUpdated == DeltasApply

(* A consumer beside the producer and one in a process of its own. *)
TwoProcesses == [t \in {publisher, janitor, near, far} |-> IF t = far THEN there ELSE here]

(* Consumers do not meet: what they ask for changes the cache of their own *)
(* process only.  Beside the producer, what fails and what is removed is   *)
(* considered one at a time.                                               *)
CrashesOrOutages ==
  [consumers : {{near}}, troubles : {{"crash"}, {"outage"}, {"remove"}}]
    \cup [consumers : {{far}}, troubles : {{"crash"}, {"outage", "remove"}}]
Everything == [consumers : {{near}, {far}}, troubles : {{"crash", "outage", "remove"}}]
=============================================================================
