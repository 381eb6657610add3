------------------------------ MODULE Producer ------------------------------
(***************************************************************************)
(* The production side of go-hollow: producer/producer.go (RunCycle,       *)
(* storeBlob, Restore), the part of the write engine a cycle rotates       *)
(* (internal/state.go, PrepareForCycle) and the in-memory blob store       *)
(* (blob/blob.go).                                                         *)
(*                                                                         *)
(* RunCycle holds p.mu from start to end, but it is not atomic: the blob   *)
(* store, the announcer, the enforcer and Restore (which takes no lock)    *)
(* are all visible while it runs, and the process may stop between any two *)
(* of its steps.  So a call is a sequence of actions driven by pc:         *)
(*                                                                         *)
(*   idle -> populated -> validating -> stored -> committed -> idle        *)
(*                                                                         *)
(* Data is abstract: a write state is a member of Contents, or NoContent   *)
(* when nothing was added.  A delta blob is named by the two write states  *)
(* it was computed from: base (previousState) and target (currentState).   *)
(* WriteStateEngine.tla models the records inside it.                      *)
(***************************************************************************)
EXTENDS Integers, Sequences

CONSTANTS
  Contents,     \* the nonempty write states a populate callback may build
  NoContent,    \* the write state holding no record
  NoBlob,       \* a blob the store does not have
  Hash,         \* calculateDataHash, as a function on Contents
  NoHash,       \* lastDataHash = 0: nothing hashed yet
  NumStatesBetweenSnapshots,
  MaxVersion,   \* bound on the versions a behaviour reaches
  Events        \* which outside events may happen (see EventNames)

(***************************************************************************)
(* Definitions whose comment starts with "Slip:" are no part of the        *)
(* specification.  Each is a wrong version of the definition after it, a   *)
(* bug one could write there; a run in which it takes the place of the     *)
(* right one has to find the property named in the comment violated.       *)
(***************************************************************************)

(***************************************************************************)
(* What the surroundings may do to a producer.  A run or a theorem that    *)
(* needs a quiet environment says so by leaving events out of Events.      *)
(***************************************************************************)
EventNames ==
  { "disable",      \* the single producer enforcer is switched off and on
    "empty",        \* a populate callback adds nothing
    "reject",       \* a validator fails
    "storeFail",    \* serialisation or BlobStore.Store returns an error
    "announceFail", \* Announcer.Announce returns an error
    "crash",        \* the process stops; a new Producer opens the same store
    "restore",      \* Restore is called between cycles
    "restoreRace" } \* Restore is called while RunCycle is running

ASSUME ContentsAssumption ==
  /\ NoContent \notin Contents
  /\ NoBlob \notin Contents \cup {NoContent}
  /\ DOMAIN Hash = Contents
  /\ \A c \in Contents : Hash[c] # NoHash
ASSUME BlobsAssumption ==
  NoBlob \notin [to : Nat, base : Contents \cup {NoContent}, target : Contents]
ASSUME BoundsAssumption ==
  /\ NumStatesBetweenSnapshots \in Nat \ {0}
  /\ MaxVersion \in Nat \ {0}
ASSUME EventsAssumption == Events \subseteq EventNames

VARIABLES
  enabled,              \* singleProducerEnforcer.enabled
  pc,                   \* where RunCycle stands
  currentVersion, lastSnapshotVersion, lastDataHash,
  failedSnapshots,      \* history: versions a snapshot of which was not stored
  newVersion,           \* RunCycle's local variable
  previousState, currentState,   \* writeEngine
  snapshots, deltas,    \* the blob store: by Version and by FromVersion
  announced,            \* last version handed to the announcer
  returned              \* version returned by the last RunCycle

engineVars == <<previousState, currentState>>
storeVars == <<snapshots, deltas>>
versionVars == <<currentVersion, lastSnapshotVersion, lastDataHash, failedSnapshots>>
vars == <<enabled, pc, versionVars, newVersion, engineVars, storeVars,
          announced, returned>>

Versions == 1..MaxVersion
FromVersions == 0..(MaxVersion - 1)
States == Contents \cup {NoContent}
Hashes == {Hash[c] : c \in Contents}
DeltaBlob == [to : Versions, base : States, target : Contents]
Phases == {"idle", "populated", "validating", "stored", "committed"}

Init ==
  /\ enabled = TRUE
  /\ pc = "idle"
  /\ currentVersion = 0
  /\ lastSnapshotVersion = 0
  /\ lastDataHash = NoHash
  /\ failedSnapshots = {}
  /\ newVersion = 0
  /\ previousState = NoContent
  /\ currentState = NoContent
  /\ snapshots = [v \in Versions |-> NoBlob]
  /\ deltas = [f \in FromVersions |-> NoBlob]
  /\ announced = 0
  /\ returned = 0

-----------------------------------------------------------------------------
(* Slip: the previous state is not rotated (DeltaBaseSound, ReturnedIsBase). *)
PrepareForCycleKeepsBase(c) ==
  /\ currentState' = c
  /\ UNCHANGED previousState

(* PrepareForCycle: what the last cycle built, published or not, becomes   *)
(* the state the next delta is computed against.                           *)
PrepareForCycle(c) ==
  /\ previousState' = currentState
  /\ currentState' = c

Return(version) ==
  /\ pc' = "idle"
  /\ returned' = version

(* A producer that is not primary returns its current version. *)
DisabledCycle ==
  /\ pc = "idle"
  /\ ~enabled
  /\ Return(currentVersion)
  /\ UNCHANGED <<enabled, versionVars, newVersion, engineVars, storeVars, announced>>

(* The cycle starts: prepare, then run the populate callback. *)
Populate(c) ==
  /\ pc = "idle"
  /\ enabled
  /\ currentVersion < MaxVersion
  /\ PrepareForCycle(c)
  /\ pc' = "populated"
  /\ UNCHANGED <<enabled, versionVars, newVersion, storeVars, announced, returned>>

(* Nothing was added: return 0, after the engine has already rotated. *)
EmptyCycle ==
  /\ "empty" \in Events
  /\ pc = "idle"
  /\ enabled
  /\ PrepareForCycle(NoContent)
  /\ Return(0)
  /\ UNCHANGED <<enabled, versionVars, newVersion, storeVars, announced>>

(* Slip: no cycle is recognised as identical (ImplementsVersionLog). *)
IdenticalNever == FALSE

Identical ==
  /\ currentVersion > 0
  /\ lastDataHash # NoHash
  /\ Hash[currentState] = lastDataHash

IdenticalCycle ==
  /\ pc = "populated"
  /\ Identical
  /\ Return(currentVersion)
  /\ UNCHANGED <<enabled, versionVars, newVersion, engineVars, storeVars, announced>>

(* Slip: versions come from a counter failed cycles advance too (NoGaps,   *)
(* PlansHaveNoGap of Hollow).                                              *)
AllocateVersionEagerly ==
  /\ pc = "populated"
  /\ ~Identical
  /\ currentVersion < MaxVersion /\ newVersion < MaxVersion
  /\ newVersion' = newVersion + 1
  /\ pc' = "validating"
  /\ UNCHANGED <<enabled, versionVars, engineVars, storeVars, announced, returned>>

(* The version is taken, deletes are calculated and validators run. *)
AllocateVersion ==
  /\ pc = "populated"
  /\ ~Identical
  /\ currentVersion < MaxVersion
  /\ newVersion' = currentVersion + 1
  /\ pc' = "validating"
  /\ UNCHANGED <<enabled, versionVars, engineVars, storeVars, announced, returned>>

(* A failed validator "rolls back" by preparing for a cycle once more. *)
ValidationFails ==
  /\ "reject" \in Events
  /\ pc = "validating"
  /\ PrepareForCycle(NoContent)
  /\ Return(0)
  /\ UNCHANGED <<enabled, versionVars, newVersion, storeVars, announced>>

(* Slip: off by one (SnapshotSpacing). *)
ShouldCreateSnapshotLate ==
  \/ lastSnapshotVersion = 0
  \/ newVersion - lastSnapshotVersion > NumStatesBetweenSnapshots

ShouldCreateSnapshot ==
  \/ lastSnapshotVersion = 0
  \/ newVersion - lastSnapshotVersion >= NumStatesBetweenSnapshots

(* Slip: the state before the cycle is serialised (TypeOK). *)
StoreSnapshotOfPrevious ==
  /\ pc = "validating"
  /\ ShouldCreateSnapshot
  /\ lastSnapshotVersion' = newVersion
  /\ snapshots' = [snapshots EXCEPT ![newVersion] = previousState]
  /\ pc' = "stored"
  /\ UNCHANGED <<enabled, currentVersion, lastDataHash, failedSnapshots, newVersion,
                 engineVars, deltas, announced, returned>>

StoreSnapshot ==
  /\ pc = "validating"
  /\ ShouldCreateSnapshot
  /\ lastSnapshotVersion' = newVersion
  /\ snapshots' = [snapshots EXCEPT ![newVersion] = currentState]
  /\ pc' = "stored"
  /\ UNCHANGED <<enabled, currentVersion, lastDataHash, failedSnapshots, newVersion,
                 engineVars, deltas, announced, returned>>

(* Slip: the delta leads from the last snapshot (PublishedIsImmutable). *)
StoreDeltaFromSnapshot ==
  /\ pc = "validating"
  /\ ~ShouldCreateSnapshot
  /\ lastSnapshotVersion \in FromVersions
  /\ deltas' = [deltas EXCEPT ![lastSnapshotVersion] =
                  [to |-> newVersion, base |-> previousState, target |-> currentState]]
  /\ pc' = "stored"
  /\ UNCHANGED <<enabled, versionVars, newVersion, engineVars, snapshots,
                 announced, returned>>

(* FromVersion is read from p.currentVersion here, ToVersion is the        *)
(* version taken earlier.                                                  *)
StoreDelta ==
  /\ pc = "validating"
  /\ ~ShouldCreateSnapshot
  /\ currentVersion \in FromVersions
  /\ deltas' = [deltas EXCEPT ![currentVersion] =
                  [to |-> newVersion, base |-> previousState, target |-> currentState]]
  /\ pc' = "stored"
  /\ UNCHANGED <<enabled, versionVars, newVersion, engineVars, snapshots,
                 announced, returned>>

(* Slip: the error is dropped and the version returned                     *)
(* (VisibleVersionsAreStored).                                             *)
StoreFailsQuietly ==
  /\ "storeFail" \in Events
  /\ pc = "validating"
  /\ Return(newVersion)
  /\ UNCHANGED <<enabled, versionVars, newVersion, engineVars, storeVars, announced>>

(* lastSnapshotVersion is already set when serialisation or Store fails. *)
StoreFails ==
  /\ "storeFail" \in Events
  /\ pc = "validating"
  /\ IF ShouldCreateSnapshot
     THEN /\ lastSnapshotVersion' = newVersion
          /\ failedSnapshots' = failedSnapshots \cup {newVersion}
     ELSE UNCHANGED <<lastSnapshotVersion, failedSnapshots>>
  /\ Return(0)
  /\ UNCHANGED <<enabled, currentVersion, lastDataHash, newVersion, engineVars,
                 storeVars, announced>>

(* Slip: only the first hash is remembered (NoLostChange). *)
CommitKeepsHash ==
  /\ pc = "stored"
  /\ currentVersion' = newVersion
  /\ lastDataHash' = IF lastDataHash = NoHash THEN Hash[currentState] ELSE lastDataHash
  /\ pc' = "committed"
  /\ UNCHANGED <<enabled, lastSnapshotVersion, failedSnapshots, newVersion, engineVars,
                 storeVars, announced, returned>>

Commit ==
  /\ pc = "stored"
  /\ currentVersion' = newVersion
  /\ lastDataHash' = Hash[currentState]
  /\ pc' = "committed"
  /\ UNCHANGED <<enabled, lastSnapshotVersion, failedSnapshots, newVersion, engineVars,
                 storeVars, announced, returned>>

(* Slip: only snapshots are announced (ChangeIsAnnounced). *)
AnnounceSnapshots ==
  /\ pc = "committed"
  /\ announced' = IF snapshots[newVersion] # NoBlob THEN newVersion ELSE announced
  /\ Return(newVersion)
  /\ UNCHANGED <<enabled, versionVars, newVersion, engineVars, storeVars>>

Announce ==
  /\ pc = "committed"
  /\ announced' = newVersion
  /\ Return(newVersion)
  /\ UNCHANGED <<enabled, versionVars, newVersion, engineVars, storeVars>>

(* The error is printed and the cycle still succeeds. *)
AnnounceFails ==
  /\ "announceFail" \in Events
  /\ pc = "committed"
  /\ Return(newVersion)
  /\ UNCHANGED <<enabled, versionVars, newVersion, engineVars, storeVars, announced>>

-----------------------------------------------------------------------------
(* SingleProducerEnforcer.Enable and Disable, from any goroutine. *)
SwitchEnforcer ==
  /\ "disable" \in Events
  /\ enabled' = ~enabled
  /\ UNCHANGED <<pc, versionVars, newVersion, engineVars, storeVars, announced, returned>>

(* Restore only finds the snapshot and sets the version. *)
Restore(v) ==
  /\ \/ "restore" \in Events /\ pc = "idle"
     \/ "restoreRace" \in Events
  /\ snapshots[v] # NoBlob
  /\ currentVersion' = v
  /\ UNCHANGED <<enabled, pc, lastSnapshotVersion, lastDataHash, failedSnapshots,
                 newVersion, engineVars, storeVars, announced, returned>>

(* The process stops and NewProducer runs against the same store. *)
Restart ==
  /\ "crash" \in Events
  /\ enabled' = TRUE
  /\ pc' = "idle"
  /\ currentVersion' = 0
  /\ lastSnapshotVersion' = 0
  /\ lastDataHash' = NoHash
  /\ newVersion' = 0
  /\ previousState' = NoContent
  /\ currentState' = NoContent
  /\ returned' = 0
  /\ UNCHANGED <<failedSnapshots, storeVars, announced>>

UnannouncedStep ==
  \/ IdenticalCycle \/ AllocateVersion \/ ValidationFails
  \/ StoreSnapshot \/ StoreDelta \/ StoreFails
  \/ Commit \/ AnnounceFails
CycleStep == UnannouncedStep \/ Announce

Surroundings ==
  \/ \E c \in Contents : Populate(c)
  \/ DisabledCycle \/ EmptyCycle
  \/ SwitchEnforcer \/ Restart
  \/ \E v \in Versions : Restore(v)

Next == Surroundings \/ CycleStep

(* A cycle that has started is code running to its end; only the caller    *)
(* decides whether another one starts.                                     *)
Spec == Init /\ [][Next]_vars /\ WF_vars(CycleStep)

-----------------------------------------------------------------------------
(* What the store offers a reader. *)
Stored(v) == snapshots[v] # NoBlob \/ deltas[v - 1] # NoBlob

(* What version v stands for: the snapshot if there is one, because a      *)
(* reader prefers it, otherwise the state its delta leads to.              *)
ContentOf(v) ==
  IF v = 0 THEN NoContent
  ELSE IF snapshots[v] # NoBlob THEN snapshots[v]
  ELSE deltas[v - 1].target

TypeOK ==
  /\ enabled \in BOOLEAN
  /\ pc \in Phases
  /\ currentVersion \in 0..MaxVersion
  /\ lastSnapshotVersion \in 0..MaxVersion
  /\ lastDataHash \in Hashes \cup {NoHash}
  /\ failedSnapshots \subseteq Versions
  /\ newVersion \in 0..MaxVersion
  /\ previousState \in States
  /\ currentState \in States
  /\ snapshots \in [Versions -> Contents \cup {NoBlob}]
  /\ deltas \in [FromVersions -> DeltaBlob \cup {NoBlob}]
  /\ announced \in 0..MaxVersion
  /\ returned \in 0..MaxVersion

(***************************************************************************)
(* The chain a consumer walks back has no gap: below any stored version    *)
(* every version has a snapshot or a delta, and a delta leads from a       *)
(* version to the next one.  planBlobs reports "gap at version" otherwise. *)
(***************************************************************************)
NoGaps ==
  /\ \A v \in Versions : Stored(v) => \A u \in 1..v : Stored(u)
  /\ \A f \in FromVersions : deltas[f] # NoBlob => deltas[f].to = f + 1

(***************************************************************************)
(* A version is in the store before anybody can hear of it: through the    *)
(* announcer, through RunCycle's result or through currentVersion, and     *)
(* also after a failed cycle or a restart.                                 *)
(***************************************************************************)
VisibleVersionsAreStored ==
  \A v \in {announced, returned, currentVersion} \ {0} : Stored(v)

(***************************************************************************)
(* numStatesBetweenSnapshots bounds the work of a consumer that starts     *)
(* from nothing: at most that many versions behind any stored version,     *)
(* itself included, there is a snapshot, or one that the store failed to   *)
(* take.  A snapshot that is due is not put off by rejected, empty or      *)
(* failed cycles, or by a restart.                                         *)
(***************************************************************************)
SnapshotSpacing ==
  \A v \in Versions : Stored(v) =>
    \E s \in 1..v : /\ snapshots[s] # NoBlob \/ s \in failedSnapshots
                    /\ v - s < NumStatesBetweenSnapshots

(***************************************************************************)
(* A delta was computed from the very state its FromVersion stands for, so *)
(* applying it there yields the state published as its ToVersion.  The     *)
(* engine computes it from the state of the last cycle instead, published  *)
(* or not (PrepareForCycle), which is the same only if that cycle          *)
(* succeeded.                                                              *)
(***************************************************************************)
DeltaBaseSound ==
  \A f \in FromVersions : deltas[f] # NoBlob => deltas[f].base = ContentOf(f)

(***************************************************************************)
(* A cycle that fails, or adds nothing, spoils one delta at most: the      *)
(* delta of a cycle that follows one which returned its version was        *)
(* computed from that version, whatever failed before it.  (A disabled     *)
(* producer returns a version without a cycle, so this is about one that   *)
(* stays enabled.)                                                         *)
(***************************************************************************)
ReturnedIsBase ==
  [][StoreDelta /\ currentVersion # 0 /\ returned = currentVersion =>
       deltas'[currentVersion].base = ContentOf(currentVersion)]_vars

(***************************************************************************)
(* A delta blob spans from its FromVersion to the next version; the two    *)
(* numbers are read from p.currentVersion at different moments of RunCycle *)
(* (RunCycle line 160, storeBlob line 282).                                *)
(***************************************************************************)
DeltaSpansOneVersion ==
  \A f \in FromVersions : deltas[f] # NoBlob => deltas[f].to = f + 1

(***************************************************************************)
(* shouldCreateSnapshot: "First version is always a snapshot".             *)
(***************************************************************************)
FirstVersionIsSnapshot == Stored(1) => snapshots[1] # NoBlob

(***************************************************************************)
(* No change is dropped: a cycle that is reported as identical populated   *)
(* exactly what the version it returns stands for.                         *)
(***************************************************************************)
NoLostChange == [][IdenticalCycle => currentState = ContentOf(currentVersion)]_vars

(***************************************************************************)
(* What a published version stands for never changes, and versions are     *)
(* only ever added: readers that fetched it earlier or later agree.        *)
(***************************************************************************)
PublishedIsImmutable ==
  [][\A v \in Versions : Stored(v) => Stored(v)' /\ ContentOf(v)' = ContentOf(v)]_vars

(***************************************************************************)
(* A cycle that populated a change ends, and either it says that it failed *)
(* (it returns 0), or the version it returns is the one announced and      *)
(* stands for the change.                                                  *)
(***************************************************************************)
ChangeIsAnnounced ==
  \A c \in Contents :
    (pc = "populated" /\ currentState = c /\ ~Identical)
      ~> /\ pc = "idle"
         /\ returned # 0 =>
              /\ announced = returned /\ currentVersion = returned
              /\ ContentOf(announced) = c

(***************************************************************************)
(* The producer implements VersionLog: the log is what the store offers,   *)
(* up to the version being committed.                                      *)
(***************************************************************************)
LogLength == IF pc = "stored" THEN newVersion ELSE currentVersion
Log == INSTANCE VersionLog WITH
         Contents <- Contents,
         log <- [v \in 1..LogLength |-> ContentOf(v)],
         latest <- announced
ImplementsVersionLog == Log!Spec
=============================================================================
