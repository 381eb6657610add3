----------------------------- MODULE VersionLog -----------------------------
(***************************************************************************)
(* What a go-hollow producer promises its consumers, with no blob, cycle   *)
(* or phase in it: a log of data states that only grows, in which two      *)
(* neighbours differ, and a latest version that consumers hear of, which   *)
(* always is the end of the log at the moment it is announced.             *)
(***************************************************************************)
EXTENDS Naturals, Sequences

CONSTANT Contents
VARIABLES log,     \* log[v] is the data published as version v
          latest   \* the version announced last, 0 before the first

vars == <<log, latest>>

Init == log = <<>> /\ latest = 0

Publish(c) ==
  /\ log = <<>> \/ log[Len(log)] # c
  /\ log' = Append(log, c)
  /\ UNCHANGED latest

Announce ==
  /\ latest < Len(log)
  /\ latest' = Len(log)
  /\ UNCHANGED log

Next == Announce \/ \E c \in Contents : Publish(c)

Spec == Init /\ [][Next]_vars
=============================================================================
