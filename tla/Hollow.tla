------------------------------- MODULE Hollow -------------------------------
(***************************************************************************)
(* A producer, its announcements and one consumer: Producer.tla composed   *)
(* with blob/announcement.go (InMemoryFeed) and consumer/consumer.go.      *)
(*                                                                         *)
(* A consumer may be refreshed by its own autoRefreshLoop goroutine        *)
(* ("auto") and by a caller of TriggerRefresh ("manual").  Neither takes a *)
(* lock: each reads the current version, plans a chain of blobs walking    *)
(* back from its target, one store access after the other, and applies     *)
(* them one by one, where applying a delta reads the current read state,   *)
(* asks whether it is still valid, copies it and replaces it.  Each of     *)
(* these is a step here, interleaved with the producer's.                  *)
(*                                                                         *)
(* Data is one plain type, a write state is the sequence of its records;   *)
(* delta blobs are computed and applied by DeltaSet.tla, and encoded and   *)
(* decoded by Serialization.tla.                                           *)
(***************************************************************************)
EXTENDS Producer, Serialization

CONSTANTS
  BufferSize,    \* of the subscription channel (10 in the code)
  Setups         \* the programs to consider: records of the serializers of the
                 \* producer (writer), the consumer (reader) and its views
                 \* (viewer), of who refreshes the consumer (refreshers) and
                 \* of what may disturb them (disturbances)

(* As in Producer.tla, definitions whose comment starts with "Slip:" are   *)
(* wrong versions of the definition after them.                            *)

Refreshers == {"auto", "manual"}

DisturbanceNames ==
  { "pin",             \* somebody pins and unpins versions
    "explicit",        \* the caller names a target version itself
    "lateSubscribe" }  \* announcements may precede the subscription

ASSUME HollowAssumption ==
  /\ NoContent = <<>>
  /\ BufferSize \in Nat
  /\ Setups \subseteq [writer : Serializers, reader : Serializers, viewer : Serializers,
                      refreshers : SUBSET Refreshers, disturbances : SUBSET DisturbanceNames]

VARIABLES
  latestVersion, pinnedVersion,   \* the feed; pinnedVersion = 0: not pinned
  subscribed, inbox,              \* the auto refresh loop's subscription
  readVersion, readContent,       \* the consumer's current read state
  refresher,                      \* the local variables of each refresher
  panicked,                       \* the consumer's process has crashed
  setup                           \* which of Setups this is

feedVars == <<latestVersion, pinnedVersion, subscribed, inbox>>
readVars == <<readVersion, readContent>>
consumerVars == <<readVars, refresher, panicked, setup>>
hollowVars == <<vars, feedVars, consumerVars>>

(* Where a refresh stands and what it holds in its local variables. *)
Idle == [pc |-> "idle", target |-> 0, from |-> 0, cur |-> 0, chain |-> <<>>,
         held |-> NoContent, fresh |-> TRUE, base |-> NoContent]

HollowInit ==
  /\ Init
  /\ latestVersion = 0
  /\ pinnedVersion = 0
  /\ setup \in Setups
  /\ subscribed = ("auto" \in setup.refreshers /\ "lateSubscribe" \notin setup.disturbances)
  /\ inbox = <<>>
  /\ readVersion = 0
  /\ readContent = NoContent
  /\ refresher = [p \in Refreshers |-> Idle]
  /\ panicked = FALSE

-----------------------------------------------------------------------------
(* Slip: subscribers are not notified (AnnouncedIsRead). *)
FeedAnnounceSilently(version) ==
  IF version > latestVersion
  THEN latestVersion' = version /\ UNCHANGED <<pinnedVersion, subscribed, inbox>>
  ELSE UNCHANGED feedVars

(* InMemoryFeed.Announce: only newer versions count, and a subscriber      *)
(* whose channel is full misses the version.                               *)
FeedAnnounce(version) ==
  IF version > latestVersion
  THEN /\ latestVersion' = version
       /\ inbox' = IF subscribed /\ Len(inbox) < BufferSize
                   THEN Append(inbox, version) ELSE inbox
       /\ UNCHANGED <<pinnedVersion, subscribed>>
  ELSE UNCHANGED feedVars

Latest == IF pinnedVersion # 0 THEN pinnedVersion ELSE latestVersion

Pin(version) ==
  /\ "pin" \in setup.disturbances
  /\ pinnedVersion' = version
  /\ UNCHANGED <<vars, latestVersion, subscribed, inbox, consumerVars>>

Unpin ==
  /\ pinnedVersion # 0
  /\ pinnedVersion' = 0
  /\ UNCHANGED <<vars, latestVersion, subscribed, inbox, consumerVars>>

(* The goroutine started by NewConsumer gets to Subscribe. *)
Subscribe ==
  /\ "auto" \in setup.refreshers
  /\ ~subscribed
  /\ subscribed' = TRUE
  /\ UNCHANGED <<vars, latestVersion, pinnedVersion, inbox, consumerVars>>

-----------------------------------------------------------------------------
Goto(p, local) == refresher' = [refresher EXCEPT ![p] = local]

(* The loop takes a version off its subscription. *)
Receive ==
  /\ "auto" \in setup.refreshers
  /\ ~panicked
  /\ refresher["auto"].pc = "idle"
  /\ inbox # <<>>
  /\ inbox' = Tail(inbox)
  /\ Goto("auto", [Idle EXCEPT !.pc = "begin", !.target = Head(inbox)])
  /\ UNCHANGED <<vars, latestVersion, pinnedVersion, subscribed, readVars, panicked, setup>>

(* ListVersions names the versions that have a snapshot. *)
NewestSnapshot ==
  LET listed == {v \in Versions : snapshots[v] # NoBlob}
  IN IF listed = {} THEN 0 ELSE CHOOSE v \in listed : \A u \in listed : u <= v

(* TriggerRefresh: the cursor's latest version, or the newest snapshot     *)
(* while nothing is announced.                                             *)
TriggerRefresh ==
  /\ "manual" \in setup.refreshers
  /\ ~panicked
  /\ refresher["manual"].pc = "idle"
  /\ Goto("manual", [Idle EXCEPT !.pc = "begin",
                       !.target = IF Latest = 0 THEN NewestSnapshot ELSE Latest])
  /\ UNCHANGED <<vars, feedVars, readVars, panicked, setup>>

(* The caller names a version. *)
RequestVersion(version) ==
  /\ "explicit" \in setup.disturbances
  /\ "manual" \in setup.refreshers
  /\ ~panicked
  /\ refresher["manual"].pc = "idle"
  /\ Goto("manual", [Idle EXCEPT !.pc = "begin", !.target = version])
  /\ UNCHANGED <<vars, feedVars, readVars, panicked, setup>>

(* The current version is read: the loop ignores versions that are not     *)
(* newer, TriggerRefreshTo the version it is at.  (The loop's own test and *)
(* that of TriggerRefreshTo are one step: a version that overtakes the     *)
(* target in between leaves an empty plan.)                                *)
Skips(p) ==
  \/ p = "auto" /\ refresher[p].target <= readVersion
  \/ refresher[p].target = readVersion

SkipRefresh(p) ==
  /\ refresher[p].pc = "begin"
  /\ Skips(p)
  /\ Goto(p, Idle)
  /\ UNCHANGED <<vars, feedVars, readVars, panicked, setup>>

(* Slip: the walk starts one version too far (ReadsAreStored). *)
BeginRefreshPastTarget(p) ==
  /\ refresher[p].pc = "begin"
  /\ ~Skips(p)
  /\ Goto(p, [refresher[p] EXCEPT !.pc = "plan", !.from = readVersion,
                                  !.cur = refresher[p].target + 1])
  /\ UNCHANGED <<vars, feedVars, readVars, panicked, setup>>

BeginRefresh(p) ==
  /\ refresher[p].pc = "begin"
  /\ ~Skips(p)
  /\ Goto(p, [refresher[p] EXCEPT !.pc = "plan", !.from = readVersion, !.cur = refresher[p].target])
  /\ UNCHANGED <<vars, feedVars, readVars, panicked, setup>>

-----------------------------------------------------------------------------
(* What an ordinal-based delta needs of the contents to lead from any of   *)
(* them to any other: it is false for lists that shrink by more than one   *)
(* record, where later removals hit positions that have moved.             *)
DeltasApply == \A b \in States, c \in Contents : ApplyDelta(b, DeltaOfPlain(b, c)) = c

SnapshotBytes(version) == Serialize(setup.writer, snapshots[version])
DeltaBytes(from) ==
  SerializeDelta(setup.writer, DeltaOfPlain(deltas[from].base, deltas[from].target))

(* planBlobs: from cur back until a snapshot or the current version.       *)
PlanSnapshot(p) ==
  LET r == refresher[p] IN
  /\ r.pc = "plan"
  /\ r.cur > r.from
  /\ snapshots[r.cur] # NoBlob
  /\ Goto(p, [r EXCEPT !.pc = "apply",
                !.chain = <<[kind |-> "snapshot", to |-> r.cur, data |-> SnapshotBytes(r.cur)]>> \o @])
  /\ UNCHANGED <<vars, feedVars, readVars, panicked, setup>>

(* Slip: deltas come out newest first (ReadsArePublished,                  *)
(* RefreshReachesTarget).                                                  *)
PlanDeltaBackwards(p) ==
  LET r == refresher[p] IN
  /\ r.pc = "plan"
  /\ r.cur > r.from
  /\ snapshots[r.cur] = NoBlob
  /\ deltas[r.cur - 1] # NoBlob
  /\ Goto(p, [r EXCEPT !.cur = r.cur - 1,
                !.chain = @ \o <<[kind |-> "delta", to |-> deltas[r.cur - 1].to,
                                  data |-> DeltaBytes(r.cur - 1)]>>])
  /\ UNCHANGED <<vars, feedVars, readVars, panicked, setup>>

PlanDelta(p) ==
  LET r == refresher[p] IN
  /\ r.pc = "plan"
  /\ r.cur > r.from
  /\ snapshots[r.cur] = NoBlob
  /\ deltas[r.cur - 1] # NoBlob
  /\ Goto(p, [r EXCEPT !.cur = r.cur - 1,
                !.chain = <<[kind |-> "delta", to |-> deltas[r.cur - 1].to,
                             data |-> DeltaBytes(r.cur - 1)]>> \o @])
  /\ UNCHANGED <<vars, feedVars, readVars, panicked, setup>>

(* "gap at version": the refresh returns an error. *)
PlanGap(p) ==
  LET r == refresher[p] IN
  /\ r.pc = "plan"
  /\ r.cur > r.from
  /\ snapshots[r.cur] = NoBlob
  /\ deltas[r.cur - 1] = NoBlob
  /\ Goto(p, Idle)
  /\ UNCHANGED <<vars, feedVars, readVars, panicked, setup>>

PlanReached(p) ==
  /\ refresher[p].pc = "plan"
  /\ refresher[p].cur <= refresher[p].from
  /\ Goto(p, [refresher[p] EXCEPT !.pc = "apply"])
  /\ UNCHANGED <<vars, feedVars, readVars, panicked, setup>>

-----------------------------------------------------------------------------
Holds(q) == refresher[q].pc \in {"loaded", "valid"}

(* SetCurrentState invalidates the state another refresher may hold. *)
SetCurrentState(p, version, content) ==
  /\ readVersion' = version
  /\ readContent' = content
  /\ refresher' = [q \in Refreshers |->
       IF q = p THEN [refresher[p] EXCEPT !.pc = "apply", !.chain = Tail(@),
                        !.held = NoContent, !.fresh = TRUE, !.base = NoContent]
       ELSE IF Holds(q) THEN [refresher[q] EXCEPT !.fresh = FALSE]
       ELSE refresher[q]]

NextBlobIs(p, kind) ==
  /\ refresher[p].pc = "apply"
  /\ refresher[p].chain # <<>>
  /\ Head(refresher[p].chain).kind = kind

(* Slip: a snapshot counts as the target version (ImplementsReplicatedLog). *)
LoadSnapshotAsTarget(p) ==
  /\ NextBlobIs(p, "snapshot")
  /\ CanDeserialize(setup.reader, Head(refresher[p].chain).data)
  /\ SetCurrentState(p, refresher[p].target,
                     Deserialize(setup.reader, Head(refresher[p].chain).data))
  /\ UNCHANGED <<vars, feedVars, panicked, setup>>

LoadSnapshot(p) ==
  /\ NextBlobIs(p, "snapshot")
  /\ CanDeserialize(setup.reader, Head(refresher[p].chain).data)
  /\ SetCurrentState(p, Head(refresher[p].chain).to,
                     Deserialize(setup.reader, Head(refresher[p].chain).data))
  /\ UNCHANGED <<vars, feedVars, panicked, setup>>

(* applyDelta: hold on to the current state and decode the delta. *)
LoadDelta(p) ==
  /\ NextBlobIs(p, "delta")
  /\ CanDeserializeDelta(setup.reader, Head(refresher[p].chain).data)
  /\ Goto(p, [refresher[p] EXCEPT !.pc = "loaded", !.held = readContent])
  /\ UNCHANGED <<vars, feedVars, readVars, panicked, setup>>

(* A blob of another format, or a delta without bytes, ends the refresh    *)
(* with an error.                                                          *)
DecodeFails(p) ==
  /\ \/ NextBlobIs(p, "snapshot") /\ ~CanDeserialize(setup.reader, Head(refresher[p].chain).data)
     \/ NextBlobIs(p, "delta") /\ ~CanDeserializeDelta(setup.reader, Head(refresher[p].chain).data)
  /\ Goto(p, Idle)
  /\ UNCHANGED <<vars, feedVars, readVars, panicked, setup>>

(* IsInvalidated reads a flag another goroutine writes without a lock, so  *)
(* an invalidation may or may not be seen.                                 *)
SeesValid(p) ==
  /\ refresher[p].pc = "loaded"
  /\ Goto(p, [refresher[p] EXCEPT !.pc = "valid"])
  /\ UNCHANGED <<vars, feedVars, readVars, panicked, setup>>

(* An invalidated state is not copied: the delta starts from nothing. *)
SeesInvalidated(p) ==
  /\ refresher[p].pc = "loaded"
  /\ ~refresher[p].fresh
  /\ Goto(p, [refresher[p] EXCEPT !.pc = "copied", !.base = NoContent])
  /\ UNCHANGED <<vars, feedVars, readVars, panicked, setup>>

CopyState(p) ==
  /\ refresher[p].pc = "valid"
  /\ Goto(p, [refresher[p] EXCEPT !.pc = "copied", !.base = refresher[p].held])
  /\ UNCHANGED <<vars, feedVars, readVars, panicked, setup>>

(* GetAllData panics when it finds the state invalidated after all. *)
CopyPanics(p) ==
  /\ refresher[p].pc = "valid"
  /\ ~refresher[p].fresh
  /\ panicked' = TRUE
  /\ UNCHANGED <<vars, feedVars, readVars, refresher, setup>>

(* Slip: the version is counted up instead of taken from the blob          *)
(* (ReadsAreStored).                                                       *)
FinishDeltaCounting(p) ==
  /\ refresher[p].pc = "copied"
  /\ LET blob == Head(refresher[p].chain)
     IN SetCurrentState(p, readVersion + 1,
          ApplyDelta(refresher[p].base, DeserializeDelta(setup.reader, blob.data)))
  /\ UNCHANGED <<vars, feedVars, panicked, setup>>

FinishDelta(p) ==
  /\ refresher[p].pc = "copied"
  /\ LET blob == Head(refresher[p].chain)
     IN SetCurrentState(p, blob.to,
          ApplyDelta(refresher[p].base, DeserializeDelta(setup.reader, blob.data)))
  /\ UNCHANGED <<vars, feedVars, panicked, setup>>

(* TriggerRefreshTo returns nil. *)
FinishRefresh(p) ==
  /\ refresher[p].pc = "apply"
  /\ refresher[p].chain = <<>>
  /\ Goto(p, Idle)
  /\ UNCHANGED <<vars, feedVars, readVars, panicked, setup>>

-----------------------------------------------------------------------------
ProducerStep ==
  /\ \/ Announce /\ FeedAnnounce(newVersion)
     \/ (Surroundings \/ UnannouncedStep) /\ UNCHANGED feedVars
  /\ UNCHANGED consumerVars

RefreshStep(p) ==
  /\ ~panicked
  /\ \/ SkipRefresh(p) \/ BeginRefresh(p)
     \/ PlanSnapshot(p) \/ PlanDelta(p) \/ PlanGap(p) \/ PlanReached(p)
     \/ LoadSnapshot(p) \/ LoadDelta(p) \/ DecodeFails(p)
     \/ SeesValid(p) \/ SeesInvalidated(p) \/ CopyState(p) \/ CopyPanics(p)
     \/ FinishDelta(p) \/ FinishRefresh(p)

AutoRefresh ==
  \/ Receive
  \/ "auto" \in setup.refreshers /\ RefreshStep("auto")

HollowNext ==
  \/ ProducerStep
  \/ \E v \in Versions : Pin(v) \/ RequestVersion(v)
  \/ Unpin \/ Subscribe \/ TriggerRefresh \/ Receive
  \/ \E p \in Refreshers : RefreshStep(p)

(* A started cycle runs to its end and the loop's goroutine keeps running; *)
(* a caller of TriggerRefresh may never come.                              *)
HollowSpec ==
  /\ HollowInit /\ [][HollowNext]_hollowVars
  /\ WF_hollowVars(CycleStep /\ ProducerStep)
  /\ WF_hollowVars(Subscribe)
  /\ WF_hollowVars(AutoRefresh)

-----------------------------------------------------------------------------
Formats == {"json", "capnp", "text", "packed", "empty"}

HollowTypeOK ==
  /\ latestVersion \in 0..MaxVersion
  /\ pinnedVersion \in 0..MaxVersion
  /\ subscribed \in BOOLEAN
  /\ inbox \in BoundedSeq(Versions, BufferSize)
  /\ readVersion \in 0..MaxVersion
  /\ \A p \in Refreshers :
       /\ refresher[p].pc \in {"idle", "begin", "plan", "apply", "loaded", "valid", "copied"}
       /\ {refresher[p].target, refresher[p].from, refresher[p].cur} \subseteq 0..MaxVersion
       /\ \A b \in ToSet(refresher[p].chain) :
            b.kind \in {"snapshot", "delta"} /\ b.to \in Versions /\ b.data.format \in Formats
  /\ panicked \in BOOLEAN

(***************************************************************************)
(* Whatever the consumer shows as version v is what was published as v.    *)
(***************************************************************************)
ReadsArePublished == readVersion > 0 => readContent = ContentOf(readVersion)

(***************************************************************************)
(* A refresh never takes the consumer back to an older version.            *)
(***************************************************************************)
NeverRegresses == [][readVersion' >= readVersion]_hollowVars

(***************************************************************************)
(* A refresh to a newer version that returns nil leaves the consumer at    *)
(* that version, whatever was published while it planned and applied.      *)
(***************************************************************************)
RefreshReachesTarget ==
  [][\A p \in Refreshers :
       FinishRefresh(p) /\ refresher[p].target > refresher[p].from
         => readVersion = refresher[p].target]_hollowVars

(***************************************************************************)
(* The same for every target: a consumer can be pinned to an older version *)
(* and taken back to it.                                                   *)
(***************************************************************************)
PinIsHonoured ==
  [][\A p \in Refreshers :
       FinishRefresh(p) => readVersion = refresher[p].target]_hollowVars

(***************************************************************************)
(* No plan has a gap: a consumer that heard of a version, or whose caller  *)
(* names one that is stored, finds the chain that leads to it.             *)
(***************************************************************************)
PlansHaveNoGap ==
  \A p \in Refreshers :
    /\ refresher[p].pc = "plan"
    /\ refresher[p].cur > refresher[p].from
    /\ p = "auto" \/ Stored(refresher[p].target)
    => Stored(refresher[p].cur)

(***************************************************************************)
(* Even when refreshes race each other and the producer fails, stops and   *)
(* is restored, the consumer stands at a version others can fetch, and so  *)
(* does whatever it is about to apply; nothing it keeps leaves its type.   *)
(***************************************************************************)
ReadsAreStored ==
  /\ HollowTypeOK
  /\ \A v \in {readVersion} \cup {b.to : b \in UNION {ToSet(refresher[p].chain) : p \in Refreshers}} :
       v > 0 => Stored(v)

(***************************************************************************)
(* The consumer's process does not crash in a refresh.                     *)
(***************************************************************************)
NoPanic == ~panicked

(***************************************************************************)
(* With the refresh loop running, every announced version, or a newer one, *)
(* reaches the consumer, provided the loop had subscribed before: a        *)
(* subscription brings no version announced earlier                        *)
(* (LateSubscriberCatchesUp).                                              *)
(***************************************************************************)
AnnouncedIsRead ==
  \A v \in Versions :
    ("auto" \in setup.refreshers /\ "lateSubscribe" \notin setup.disturbances /\ announced = v)
      ~> (readVersion >= v)

LateSubscriberCatchesUp ==
  \A v \in Versions : ("lateSubscribe" \in setup.disturbances /\ announced = v) ~> (readVersion >= v)

(***************************************************************************)
(* Producer, feed and consumer together implement the replicated log: the  *)
(* consumer only jumps forward along the published log and shows exactly   *)
(* the entry it stands at.                                                 *)
(***************************************************************************)
Replica == INSTANCE ReplicatedLog WITH
             Contents <- Contents, Nothing <- NoContent,
             log <- [v \in 1..LogLength |-> ContentOf(v)],
             latest <- announced,
             position <- readVersion,
             view <- readContent
ImplementsReplicatedLog == Replica!ReplicaSpec
=============================================================================
