--------------------------- MODULE ReplicatedLog ---------------------------
(***************************************************************************)
(* VersionLog with a reader: what a go-hollow consumer promises.  The      *)
(* reader stands at a position of the log and shows that entry; it may     *)
(* skip entries but never goes back and never shows anything else.  It may *)
(* be ahead of what is announced, since versions can be fetched as soon as *)
(* they are stored.                                                        *)
(***************************************************************************)
EXTENDS VersionLog

CONSTANT Nothing     \* what a reader shows before its first version
VARIABLES position, view

ReplicaInit == Init /\ position = 0 /\ view = Nothing

Advance ==
  /\ \E p \in (position + 1)..Len(log) : position' = p /\ view' = log[p]
  /\ UNCHANGED vars

ReplicaNext ==
  \/ Next /\ UNCHANGED <<position, view>>
  \/ Advance

ReplicaSpec == ReplicaInit /\ [][ReplicaNext]_<<vars, position, view>>
=============================================================================
