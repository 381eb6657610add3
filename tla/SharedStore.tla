----------------------------- MODULE SharedStore -----------------------------
(***************************************************************************)
(* Several producers over one blob store and one announcer, as the example *)
(* programs run them (examples/go/production_producer, production_consumer,*)
(* multi_writer_zerocopy, advanced_zerocopy_stress).  Every producer       *)
(* counts versions from 0 by itself, so that their blobs take each other's *)
(* places; the announcer keeps the highest version anybody announces.      *)
(*                                                                         *)
(* A cycle is producer.RunCycle with something to publish: it holds the    *)
(* producer's lock, stores a blob and announces it.  Producer.tla has its  *)
(* other steps; what matters here is whose blob is where.                  *)
(***************************************************************************)
EXTENDS Integers, Sequences, FiniteSets

CONSTANTS
  Writers,            \* 1..n: the producers
  NoWriter,           \* nobody has stored that blob
  MaxVersion,         \* bound on the versions a producer reaches
  MaxFailures         \* bound on the failures of the store

ASSUME SharedStoreAssumption ==
  /\ IsFiniteSet(Writers) /\ Writers = 1..Cardinality(Writers)
  /\ NoWriter \notin Writers
  /\ MaxVersion \in Nat /\ MaxFailures \in Nat

VARIABLES
  producer,   \* writer -> its producer, and whether a blob of it waits to be announced
  snapshots,  \* version -> whose snapshot the store has
  deltas,     \* version -> whose delta from it the store has
  latest,     \* the announcer's latest version
  failures    \* how often the store has failed

storeVars == <<producer, snapshots, deltas, latest, failures>>

(* The producers of a program have one numStatesBetweenSnapshots. *)
StoreInit(frequency) ==
  /\ producer = [w \in Writers |->
       [version |-> 0, lastSnapshot |-> 0, frequency |-> frequency, stored |-> FALSE]]
  /\ snapshots = [v \in 1..MaxVersion |-> NoWriter]
  /\ deltas = [v \in 0..(MaxVersion - 1) |-> NoWriter]
  /\ latest = 0
  /\ failures = 0

ShouldCreateSnapshot(p) ==
  \/ p.lastSnapshot = 0
  \/ p.version + 1 - p.lastSnapshot >= p.frequency

(* storeBlob notes the snapshot before it tries to store it. *)
Noted(p) == IF ShouldCreateSnapshot(p) THEN [p EXCEPT !.lastSnapshot = p.version + 1] ELSE p

MayRunCycle(w) == ~producer[w].stored /\ producer[w].version < MaxVersion

(* Slip: the delta leads from the last snapshot (EveryPollIsServed).       *)
StoreBlobFromSnapshot(w) ==
  LET p == producer[w] IN
  /\ MayRunCycle(w)
  /\ IF ShouldCreateSnapshot(p)
     THEN snapshots' = [snapshots EXCEPT ![p.version + 1] = w] /\ UNCHANGED deltas
     ELSE deltas' = [deltas EXCEPT ![p.lastSnapshot] = w] /\ UNCHANGED snapshots
  /\ producer' = [producer EXCEPT ![w] = [Noted(p) EXCEPT !.version = @ + 1, !.stored = TRUE]]
  /\ UNCHANGED <<latest, failures>>

(* A blob of the same kind and version is overwritten, whoever stored it. *)
StoreBlob(w) ==
  LET p == producer[w] IN
  /\ MayRunCycle(w)
  /\ IF ShouldCreateSnapshot(p)
     THEN snapshots' = [snapshots EXCEPT ![p.version + 1] = w] /\ UNCHANGED deltas
     ELSE deltas' = [deltas EXCEPT ![p.version] = w] /\ UNCHANGED snapshots
  /\ producer' = [producer EXCEPT ![w] = [Noted(p) EXCEPT !.version = @ + 1, !.stored = TRUE]]
  /\ UNCHANGED <<latest, failures>>

(* Slip: the failed cycle keeps its version (AnnouncedIsReachable). *)
StoreFailsCounting(w) ==
  /\ MayRunCycle(w)
  /\ failures < MaxFailures /\ failures' = failures + 1
  /\ producer' = [producer EXCEPT ![w] = [Noted(@) EXCEPT !.version = @ + 1]]
  /\ UNCHANGED <<snapshots, deltas, latest>>

StoreFails(w) ==
  /\ MayRunCycle(w)
  /\ failures < MaxFailures /\ failures' = failures + 1
  /\ producer' = [producer EXCEPT ![w] = Noted(@)]
  /\ UNCHANGED <<snapshots, deltas, latest>>

(* GoroutineAnnouncer.Announce moves the latest version on at once, if it  *)
(* is newer.                                                               *)
Announce(w) ==
  /\ producer[w].stored
  /\ producer' = [producer EXCEPT ![w].stored = FALSE]
  /\ latest' = IF producer[w].version > latest THEN producer[w].version ELSE latest
  /\ UNCHANGED <<snapshots, deltas, failures>>

-----------------------------------------------------------------------------
(***************************************************************************)
(* planBlobs of consumer.go from one version to another, as a set: the     *)
(* versions at which the walk back may end.  Blobs are never removed, so a *)
(* plan that exists when the walk starts is found although it takes time.  *)
(***************************************************************************)
Anchors(from, to) ==
  {u \in from..to :
     /\ u = from \/ snapshots[u] # NoWriter
     /\ \A v \in (u + 1)..to : snapshots[v] = NoWriter /\ deltas[v - 1] # NoWriter}

Reaches(from, to) == from >= to \/ Anchors(from, to) # {}

(* Whose blobs a consumer at version "from" applies. *)
AuthorsOfPlan(from, to) ==
  UNION {{deltas[v - 1] : v \in (u + 1)..to} \cup (IF u > from THEN {snapshots[u]} ELSE {}) :
           u \in Anchors(from, to)}

(***************************************************************************)
(* Wherever a consumer stands, it can be refreshed to every version up to  *)
(* the announced one, although producers that fail and stand at different  *)
(* versions overwrite each other's blobs, some with snapshots and some     *)
(* with deltas.                                                            *)
(***************************************************************************)
AnnouncedIsReachable ==
  \A to \in 1..latest : \A from \in 0..to : Reaches(from, to)
=============================================================================
