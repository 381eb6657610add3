------------------------------ MODULE Session ------------------------------
(***************************************************************************)
(* cmd/hollow-cli with the memory store: "produce" runs a first cycle      *)
(* (runProducer), then a prompt (runInteractiveMode), where every "p"      *)
(* command reads what there is through a zero-copy consumer                *)
(* (readExistingData) and runs a cycle with an evolved form of it, while   *)
(* the consumer's own refresh loop follows the announcements.              *)
(*                                                                         *)
(* The producer and the consumer have their default serializers (the setup *)
(* is Interactive), so no blob has a zero-copy view and no refresh of a    *)
(* returned version fails: the ways readExistingData deals with either are *)
(* left out.  The other commands only print: they are operators on the     *)
(* store.  The announcer hands versions on by a worker, as late as it      *)
(* likes, which is why Subscribe may come before the first.                *)
(***************************************************************************)
EXTENDS ZeroCopyConsumer

CONSTANTS
  Base,      \* the records of the first cycle (10 in the code)
  Counts     \* the counts a command may give

Interactive ==
  [writer |-> "traditional", reader |-> "traditional", viewer |-> "hybrid",
   refreshers |-> {"auto", "manual"}, disturbances |-> {"lateSubscribe"}]

VARIABLE session   \* the prompt: where it is, its currentVersion, what it has read

sessionVars == <<zeroCopyVars, session>>

SessionInit ==
  /\ ZeroCopyInit
  /\ session = [at |-> "start", version |-> 0, held |-> <<>>, fresh |-> TRUE, existing |-> <<>>]

-----------------------------------------------------------------------------
(* Records are texts that tell where they come from. *)
Record(origin, version, number) ==
  [origin |-> origin, version |-> version, number |-> number, updates |-> 0]
Updated(r) == [r EXCEPT !.updates = @ + 1]
New(origin, version, count) == [i \in 1..count |-> Record(origin, version, i)]

Adding(existing, version, count) == existing \o New("new", version, count)
Updating(existing, count) ==
  [i \in DOMAIN existing |-> IF i <= count THEN Updated(existing[i]) ELSE existing[i]]
Deleting(existing, count) == [i \in 1..(Len(existing) - count) |-> existing[i + count]]

(* The first and the fourth record are updated, the fifth is deleted. *)
Mixing(existing, version) ==
  LET left == (1..Len(existing)) \ {5}
      evolved(i) == IF i \in {1, 4} THEN Updated(existing[i]) ELSE existing[i]
  IN [k \in 1..Cardinality(left) |-> evolved(IF k < 5 THEN k ELSE k + 1)]
       \o New("mixed", version, 2)

Evolutions(existing, version) ==
  {Mixing(existing, version)}
    \cup UNION {{Adding(existing, version, n), Updating(existing, n), Deleting(existing, n)} : n \in Counts}

-----------------------------------------------------------------------------
RunProducer ==
  /\ session.at = "start"
  /\ Populate(Base)
  /\ session' = [session EXCEPT !.at = "cycle"]
  /\ UNCHANGED <<feedVars, consumerVars, viewVars>>

(* "p": readExistingData has nothing to read at version 0. *)
ReadNothing ==
  /\ session.at = "prompt" /\ session.version = 0
  /\ session' = [session EXCEPT !.at = "evolve", !.existing = <<>>]
  /\ UNCHANGED zeroCopyVars

ReadExistingData ==
  /\ session.at = "prompt" /\ session.version > 0
  /\ TriggerRefreshToWithZeroCopy(session.version)
  /\ session' = [session EXCEPT !.at = "refresh"]

GetCurrentState ==
  /\ session.at = "refresh" /\ call.pc = "none"
  /\ session' = [session EXCEPT !.at = "read", !.held = readContent, !.fresh = TRUE]
  /\ UNCHANGED zeroCopyVars

(* An invalidation by the refresh loop may or may not be seen. *)
GetAllData ==
  /\ session.at = "read"
  /\ session' = [session EXCEPT !.at = "evolve", !.existing = session.held, !.held = <<>>, !.fresh = TRUE]
  /\ UNCHANGED zeroCopyVars

GetAllDataPanics ==
  /\ session.at = "read" /\ ~session.fresh
  /\ panicked' = TRUE
  /\ UNCHANGED <<vars, feedVars, readVars, refresher, setup, viewVars, session>>

(* The populate callback; a command that leaves no record returns at once, *)
(* with version 0.                                                         *)
Evolve ==
  /\ session.at = "evolve"
  /\ \E c \in Evolutions(session.existing, session.version) :
       IF c = <<>>
       THEN EmptyCycle /\ session' = [session EXCEPT !.at = "prompt", !.version = 0]
       ELSE Populate(c) /\ session' = [session EXCEPT !.at = "cycle"]
  /\ UNCHANGED <<feedVars, consumerVars, viewVars>>

RunCycle ==
  /\ session.at = "cycle"
  /\ \/ Announce /\ FeedAnnounce(newVersion)
     \/ (IdenticalCycle \/ AllocateVersion \/ StoreSnapshot \/ StoreDelta \/ Commit)
        /\ UNCHANGED feedVars
  /\ UNCHANGED <<consumerVars, viewVars>>

(* Slip: every cycle counts as a new version (SessionReadsASnapshot). *)
ReturnCounting ==
  session' = IF pc' = "idle" THEN [session EXCEPT !.at = "prompt", !.version = @ + 1] ELSE session

(* The prompt goes on from the version RunCycle returns. *)
ReturnToPrompt ==
  session' = IF pc' = "idle" THEN [session EXCEPT !.at = "prompt", !.version = returned'] ELSE session

(* The loop's SetCurrentState invalidates the state that was read. *)
FollowAnnouncements ==
  /\ Subscribe \/ AutoRefresh
  /\ session' = IF refresher["auto"].pc \in {"apply", "copied"} /\ refresher'["auto"].pc = "apply"
                THEN [session EXCEPT !.fresh = @ /\ session.at # "read"] ELSE session
  /\ UNCHANGED viewVars

SessionNext ==
  /\ ~panicked
  /\ \/ RunProducer
     \/ ReadNothing \/ ReadExistingData
     \/ (RegularRefresh \/ CreateView) /\ UNCHANGED session
     \/ GetCurrentState \/ GetAllData \/ GetAllDataPanics
     \/ Evolve \/ (RunCycle /\ ReturnToPrompt)
     \/ FollowAnnouncements

SessionSpec == SessionInit /\ [][SessionNext]_sessionVars

-----------------------------------------------------------------------------
(* What the commands that print would say.  "l" lists the versions that    *)
(* have a snapshot, and "l blobs" shows with each the delta that starts at *)
(* it.                                                                     *)
ListVersions == {v \in 1..MaxVersion : SnapshotExists(v)}
DeltaFrom(version) == version \in FromVersions /\ DeltaExists(version)

ShowDetailedBlobListing ==
  [v \in ListVersions |-> [snapshot |-> TRUE, delta |-> DeltaFrom(v)]]

(* After a cycle the summary tells of the delta that ends at its version. *)
ShowBlobSummary(version) ==
  [snapshot |-> SnapshotExists(version), delta |-> version > 1 /\ DeltaFrom(version - 1)]

(* "i" tells of the deltas on both sides, whichever kind the version is. *)
RunInspectInMemory(version) ==
  [snapshot |-> SnapshotExists(version), delta |-> DeltaFrom(version),
   incoming |-> version > 1 /\ DeltaFrom(version - 1) /\ deltas[version - 1].to = version]

(* A consumer of its own plans from nothing to the version it is given, or *)
(* with 0 to the latest; the version it shows, 0 for an error.             *)
Shown(latest, version, snapshotAt, deltaFrom) ==
  LET target == IF version = 0 THEN latest ELSE version
      planned == \E u \in snapshotAt \cup {0} :
                   u <= target /\ u..(target - 1) \subseteq deltaFrom
  IN IF planned THEN target ELSE 0

RunConsumerInMemory(version) ==
  Shown(IF Latest = 0 THEN NewestSnapshot ELSE Latest, version,
        ListVersions, {f \in FromVersions : DeltaFrom(f)})

(* The commands "consume" and "inspect" are processes of their own: their  *)
(* memory store and their announcer are new and empty.                     *)
RunConsumer(version) == Shown(0, version, {}, {})
RunInspect(version) == [snapshot |-> FALSE, delta |-> FALSE]

(* "d", and the command "diff", compare two states they have just made,    *)
(* both empty.                                                             *)
RunDiffInMemory(fromVersion, toVersion) == {}

-----------------------------------------------------------------------------
(***************************************************************************)
(* What a command evolves is nothing or the data of one snapshot, not      *)
(* newer than the version it was to be read at, never a mix of two,        *)
(* although the refresh loop replaces the consumer's state while it is     *)
(* read; and the prompt stands at the producer's version, unless an empty  *)
(* cycle has sent it back to 0.  Whenever it waits, the version it stands  *)
(* at has a blob to be summed up and inspected, and a consumer started     *)
(* there reaches it.                                                       *)
(***************************************************************************)
SessionReadsASnapshot ==
  /\ session.at = "evolve" =>
       \/ session.existing = <<>>
       \/ \E u \in 1..session.version : session.existing = snapshots[u]
  /\ session.at # "cycle" => session.version \in {0, currentVersion}
  /\ session.at = "prompt" /\ session.version > 0 =>
       /\ TRUE \in {ShowBlobSummary(session.version)[k] : k \in {"snapshot", "delta"}}
       /\ RunInspectInMemory(session.version).snapshot \/ RunInspectInMemory(session.version).incoming
       /\ RunConsumerInMemory(session.version) = session.version

(* interactive.go:411-414 of the listing of all blobs: a delta is the      *)
(* "Changes from previous version", and deltas lie "in between" snapshots. *)
(* It shows the delta that leads on from a snapshot and no other.          *)
ListingShowsEveryBlob ==
  session.at = "prompt" =>
    \A v \in 1..currentVersion :
      /\ v \in ListVersions
      /\ ShowDetailedBlobListing[v].delta <=> ShowBlobSummary(v).delta

(* The examples of the help text (main.go:87-88): what "produce" has       *)
(* written to the memory store, "consume -version=1" reads.                *)
ConsumeReadsWhatWasProduced ==
  currentVersion >= 1 => RunConsumer(1) = 1 /\ RunInspect(1).snapshot

(* "d" shows a change between versions whose data differ: it never does. *)
DiffShowsChanges ==
  session.at = "prompt" =>
    \A u, v \in 1..currentVersion :
      ContentOf(u) # ContentOf(v) => RunDiffInMemory(u, v) # {}
=============================================================================
